---- MODULE Spec2Model ----
(***************************************************************************)
(* Memory SSA / reaching definitions of libdg                              *)
(* (lib/analysis/MemorySSA/MemorySSA.cpp): local value numbering (LVN),    *)
(* global value numbering (GVN) over the PHI worklist, and the query       *)
(* layer (PHI flattening and the unknown-memory fallback).                 *)
(*                                                                         *)
(* DefinitionsMap, RWNode and RWBBlock are declared in headers that are    *)
(* not part of the analysed sources; they are modelled from sections 3     *)
(* and 4.1-4.3 of the specification.  A DefinitionsMap is kept in its      *)
(* byte-normal form: for every target, every byte of the object maps to    *)
(* the set of nodes defining it (the empty set: no key covers the byte).   *)
(***************************************************************************)
EXTENDS Integers, Sequences, FiniteSets, TLC

\* ------------------------------------------------------------------ bounds
\* Size in bytes of the one named memory object.
MaxOff == 2

\* Offset::UNKNOWN, the sentinel offset / length.
UNKNOWN == -1

\* The null block pointer.
NULLBLOCK == 0

UNKNOWN_MEMORY == "UNKNOWN_MEMORY"
Targets == {"t"}
AllTargets == Targets \cup {UNKNOWN_MEMORY}
Bytes == 0 .. (MaxOff - 1)

\* ------------------------------------------------------------ small helpers
SeqToSet(s) == {s[i] : i \in 1 .. Len(s)}

Min(S) == CHOOSE x \in S : \A y \in S : x <= y

RECURSIVE SetToSeq(_)
SetToSeq(S) == IF S = {} THEN <<>> ELSE <<Min(S)>> \o SetToSeq(S \ {Min(S)})

\* --------------------------------------------------- Offset, Interval, DefSite
DefSite(t, o, l) == [target |-> t, offset |-> o, len |-> l]

\* The bytes a def-site denotes.  An unknown offset stretches the site from
\* byte 0, an unknown length to the end of the object.
getInterval(ds) ==
    LET start == IF ds.offset = UNKNOWN THEN 0 ELSE ds.offset
        end   == IF ds.offset = UNKNOWN \/ ds.len = UNKNOWN
                 THEN MaxOff - 1 ELSE start + ds.len - 1
    IN  {b \in Bytes : start <= b /\ b <= end}

\* ------------------------------------------------------------ DefinitionsMap
EmptyDefinitions == [t \in AllTargets |-> [b \in Bytes |-> {}]]

\* get(ds) that also returns the definitions to unknown memory.
getWithUnknown(D, ds) ==
    UNION {D[ds.target][b] : b \in getInterval(ds)}
        \cup UNION {D[UNKNOWN_MEMORY][b] : b \in Bytes}

\* get(ds): all values mapped to any interval overlapping ds.
get(D, ds) == UNION {D[ds.target][b] : b \in getInterval(ds)}

\* update(ds, v): strong update, kill the coverage of ds, then insert ds -> {v}.
update(D, ds, v) ==
    [t \in AllTargets |->
        [b \in Bytes |-> IF t = ds.target /\ b \in getInterval(ds)
                         THEN {v} ELSE D[t][b]]]

\* add(ds, v): weak update, merge v into every key intersecting ds and key the
\* uncovered bytes of ds with {v}.
add(D, ds, v) ==
    [t \in AllTargets |->
        [b \in Bytes |-> IF t = ds.target /\ b \in getInterval(ds)
                         THEN D[t][b] \cup {v} ELSE D[t][b]]]

\* add(ds, vals): the overload taking a set of values.
addSet(D, ds, vals) ==
    [t \in AllTargets |->
        [b \in Bytes |-> IF t = ds.target /\ b \in getInterval(ds)
                         THEN D[t][b] \cup vals ELSE D[t][b]]]

\* add(target, offsets): copy a whole per-target entry into the map.
addEntry(D, target, entry) ==
    [t \in AllTargets |->
        [b \in Bytes |-> IF t = target THEN D[t][b] \cup entry[b]
                         ELSE D[t][b]]]

\* addAll(v): add v to the value set of every existing key.
addAll(D, v) ==
    [t \in AllTargets |->
        [b \in Bytes |-> IF D[t][b] = {} THEN {} ELSE D[t][b] \cup {v}]]

definesTarget(D, t) == \E b \in Bytes : D[t][b] # {}

\* The maximal runs of bytes of S (a set of bytes), in increasing order, as
\* intervals [start, len].
RECURSIVE Runs(_)
Runs(S) ==
    IF S = {} THEN <<>>
    ELSE LET lo  == Min(S)
             run == {b \in S : \A c \in lo .. b : c \in S}
         IN  <<[start |-> lo, len |-> Cardinality(run)]>> \o Runs(S \ run)

\* undefinedIntervals(ds): the uncovered gaps inside ds under ds.target.
undefinedIntervals(D, ds) ==
    Runs({b \in getInterval(ds) : D[ds.target][b] = {}})

\* The key intervals of one per-target entry (maximal runs of bytes with the
\* same non-empty value set), with their value sets: iteration in key order.
entryKeys(entry) ==
    LET RECURSIVE keysOf(_)
        keysOf(S) ==
            IF S = {} THEN <<>>
            ELSE LET lo  == Min(S)
                     run == {b \in S : \A c \in lo .. b :
                                          c \in S /\ entry[c] = entry[lo]}
                 IN  <<[start |-> lo, len |-> Cardinality(run),
                        vals |-> entry[lo]]>> \o keysOf(S \ run)
    IN  keysOf({b \in Bytes : entry[b] # {}})

\* ------------------------------------------------------------------ RW graph
\* An RWNode.  defuse is the set of node ids resolved by LVN / GVN.
RWNode(type, block, overwrites, defs, uses) ==
    [type |-> type, block |-> block, overwrites |-> overwrites,
     defs |-> defs, uses |-> uses, defuse |-> {}]

isPhi(S, n) == S.nodes[n].type = "PHI"

\* RWBBlock::getSinglePredecessor: the unique predecessor, else null.
getSinglePredecessor(S, b) ==
    IF Len(S.blocks[b].preds) = 1 THEN S.blocks[b].preds[1] ELSE NULLBLOCK

\* RWBBlock::prependAndUpdateCFG: n becomes the first node of the block.
prependAndUpdateCFG(S, b, n) ==
    [S EXCEPT !.blocks[b].nodes = <<n>> \o @]

\* RWNode::usesUnknown: some use names unknown memory or an unknown offset.
usesUnknown(S, n) ==
    \E i \in 1 .. Len(S.nodes[n].uses) :
        \/ S.nodes[n].uses[i].target = UNKNOWN_MEMORY
        \/ S.nodes[n].uses[i].offset = UNKNOWN

\* ---------------------------------------------------------------- variants
\* Faulty variants of operators defined below, each differing from the code
\* in one step.  The properties at the end of the module are checked to
\* tell the code from them.

\* createPhi without lines 60 / 100: the PHI is not made the definition of
\* its interval in the block's map.
createPhiUnrecorded(S, b, target, interval) ==
    LET p   == Len(S.nodes) + 1
        pds == DefSite(target, interval.start, interval.len)
        phi == RWNode("PHI", b, <<pds>>, <<>>, <<>>)
        S1  == [S EXCEPT !.nodes = Append(@, phi),
                         !._phis = Append(@, p),
                         !.assertFailed =
                             @ \/ get(S.blocks[b].definitions, pds) # {}]
    IN  prependAndUpdateCFG(S1, b, p)

\* createPhi with the PHI put at the end of the block's node list instead of
\* its head (lines 66 / 106).
createPhiAppended(S, b, target, interval) ==
    LET p   == Len(S.nodes) + 1
        pds == DefSite(target, interval.start, interval.len)
        phi == RWNode("PHI", b, <<pds>>, <<>>, <<>>)
    IN  [S EXCEPT !.nodes = Append(@, phi),
                  !._phis = Append(@, p),
                  !.assertFailed =
                      @ \/ get(S.blocks[b].definitions, pds) # {},
                  !.blocks[b].definitions = update(@, pds, p),
                  !.blocks[b].nodes = Append(@, p)]

\* ---------------------------------------------------------- PHI creation
\* The PHI-creating body shared by findDefinitions and findDefinitionsInBlock:
\* create a PHI overwriting (target, interval), register it in _phis, make it
\* the definition of the interval in the block and prepend it to the block.
\* The assertion that the interval had no definition is recorded in
\* assertFailed.
createPhi(S, b, target, interval) ==
    LET p   == Len(S.nodes) + 1
        pds == DefSite(target, interval.start, interval.len)
        phi == RWNode("PHI", b, <<pds>>, <<>>, <<>>)
        S1  == [S EXCEPT !.nodes = Append(@, phi),
                         !._phis = Append(@, p),
                         !.assertFailed =
                             @ \/ get(S.blocks[b].definitions, pds) # {},
                         !.blocks[b].definitions = update(@, pds, p)]
    IN  prependAndUpdateCFG(S1, b, p)

\* The PHIs appended to the registry between two states.
newPhis(S, S2) == {S2._phis[i] : i \in (Len(S._phis) + 1) .. Len(S2._phis)}

\* findDefinitionsInBlock without lines 86-87: the definitions to unknown
\* memory are not added.  (PHI creation as in phiPerInterval below.)
findDefinitionsInBlockKnownOnly(S, b, ds) ==
    LET D         == S.blocks[b].definitions
        uncovered == undefinedIntervals(D, ds)
        RECURSIVE each(_, _)
        each(S1, i) ==
            IF i > Len(uncovered) THEN S1
            ELSE each(LET p   == Len(S1.nodes) + 1
                          pds == DefSite(ds.target, uncovered[i].start,
                                         uncovered[i].len)
                          S2  == [S1 EXCEPT
                                     !.nodes = Append(@, RWNode("PHI", b, <<pds>>,
                                                                <<>>, <<>>)),
                                     !._phis = Append(@, p),
                                     !.blocks[b].definitions = update(@, pds, p)]
                      IN  prependAndUpdateCFG(S2, b, p), i + 1)
        S3        == each(S, 1)
    IN  [defs |-> get(D, ds) \cup newPhis(S, S3), S |-> S3]

\* findDefinitionsInBlock (LVN only): the definitions of ds known in the
\* block, the definitions to unknown memory, and a new PHI per uncovered
\* interval.  Returns the definitions and the changed state.
RECURSIVE phiPerInterval(_, _, _, _, _)
phiPerInterval(S, b, target, uncovered, i) ==
    IF i > Len(uncovered) THEN S
    ELSE phiPerInterval(createPhi(S, b, target, uncovered[i]),
                        b, target, uncovered, i + 1)

findDefinitionsInBlock(S, b, ds) ==
    LET D         == S.blocks[b].definitions
        defSet    == get(D, ds)
        unknown   == get(D, DefSite(UNKNOWN_MEMORY, 0, UNKNOWN))
        uncovered == undefinedIntervals(D, ds)
        S2        == phiPerInterval(S, b, ds.target, uncovered, 1)
    IN  [defs |-> defSet \cup unknown \cup newPhis(S, S2), S |-> S2]

\* performLvn's strong updates done with add instead of update (line 121).
RECURSIVE lvnOverwritesByAdd(_, _, _, _)
lvnOverwritesByAdd(S, b, n, i) ==
    IF i > Len(S.nodes[n].overwrites) THEN S
    ELSE LET ds == S.nodes[n].overwrites[i]
             S1 == [S EXCEPT !.assertFailed =
                                 @ \/ ds.offset = UNKNOWN
                                   \/ ds.target = UNKNOWN_MEMORY,
                             !.blocks[b].definitions = add(@, ds, n)]
         IN  lvnOverwritesByAdd(S1, b, n, i + 1)

\* ---------------------------------------------------------------------- LVN
\* performLvn, the strong updates of one node.  The assertions of lines
\* 118-119 come before the update of line 121: a def-site that fails them
\* ends the run there, with the map as the def-sites before it left it.
RECURSIVE lvnOverwrites(_, _, _, _)
lvnOverwrites(S, b, n, i) ==
    IF i > Len(S.nodes[n].overwrites) THEN S
    ELSE LET ds == S.nodes[n].overwrites[i]
         IN  IF ds.offset = UNKNOWN \/ ds.target = UNKNOWN_MEMORY
             THEN [S EXCEPT !.assertFailed = TRUE]
             ELSE lvnOverwrites([S EXCEPT !.blocks[b].definitions =
                                              update(@, ds, n)], b, n, i + 1)

\* performLvn's weak updates without line 133: a definition of unknown
\* memory taints the tracked ranges but is not recorded under UNKNOWN_MEMORY.
RECURSIVE lvnDefsTaintOnly(_, _, _, _)
lvnDefsTaintOnly(S, b, n, i) ==
    IF i > Len(S.nodes[n].defs) THEN S
    ELSE LET ds == S.nodes[n].defs[i]
         IN  IF ds.target = UNKNOWN_MEMORY
             THEN lvnDefsTaintOnly([S EXCEPT !.blocks[b].definitions =
                                       addAll(@, n)], b, n, i + 1)
             ELSE LET r  == findDefinitionsInBlock(S, b, ds)
                      S1 == [r.S EXCEPT !.nodes[n].defuse = @ \cup r.defs]
                      S2 == [S1 EXCEPT !.blocks[b].definitions =
                                           add(@, ds, n)]
                  IN  lvnDefsTaintOnly(S2, b, n, i + 1)

\* performLvn, the weak updates of one node.
RECURSIVE lvnDefs(_, _, _, _)
lvnDefs(S, b, n, i) ==
    IF i > Len(S.nodes[n].defs) THEN S
    ELSE LET ds == S.nodes[n].defs[i]
         IN  IF ds.target = UNKNOWN_MEMORY
             THEN lvnDefs([S EXCEPT !.blocks[b].definitions =
                              add(addAll(@, n),
                                  DefSite(ds.target, 0, UNKNOWN), n)],
                          b, n, i + 1)
             ELSE LET r  == findDefinitionsInBlock(S, b, ds)
                      S1 == [r.S EXCEPT !.nodes[n].defuse = @ \cup r.defs]
                      S2 == [S1 EXCEPT !.blocks[b].definitions =
                                           add(@, ds, n)]
                  IN  lvnDefs(S2, b, n, i + 1)

\* performLvn, the uses of one node.
RECURSIVE lvnUses(_, _, _, _)
lvnUses(S, b, n, i) ==
    IF i > Len(S.nodes[n].uses) THEN S
    ELSE LET r  == findDefinitionsInBlock(S, b, S.nodes[n].uses[i])
             S1 == [r.S EXCEPT !.nodes[n].defuse = @ \cup r.defs]
         IN  lvnUses(S1, b, n, i + 1)

\* The number of blocks of the graph.
numBlocks(S) == Len(S.blocks)

\* The nodes of block b the frontend supplied, in program order: the loop of
\* performLvn(block) visits these, the PHIs are prepended behind its iterator.
origNodes(S, b) == SelectSeq(S.blocks[b].nodes, LAMBDA n : ~isPhi(S, n))

\* performLvn(): the first node at or after position (b, i) in the order
\* blocks and their nodes are visited; block 0 when there is none.
RECURSIVE lvnCursor(_, _, _)
lvnCursor(S, b, i) ==
    IF b > numBlocks(S) THEN [block |-> 0, idx |-> 0, stage |-> "overwrites"]
    ELSE IF i <= Len(origNodes(S, b))
         THEN [block |-> b, idx |-> i, stage |-> "overwrites"]
         ELSE lvnCursor(S, b + 1, 1)

\* performLvn() run to the end from cursor c.
RECURSIVE performLvn(_, _)
performLvn(S, c) ==
    IF c.block = 0 THEN S
    ELSE LET n  == origNodes(S, c.block)[c.idx]
             S1 == lvnOverwrites(S, c.block, n, 1)
             S2 == lvnDefs(S1, c.block, n, 1)
             S3 == lvnUses(S2, c.block, n, 1)
         IN  IF S1.assertFailed THEN S1
             ELSE performLvn(S3, lvnCursor(S3, c.block, c.idx + 1))

\* performLvn(block) called on a block that already holds PHIs: the loop of
\* line 115 starts at the head of the node list as it is at the call, PHIs
\* included, and visits the nodes list[i..]; what is prepended meanwhile
\* lies behind its iterator.
RECURSIVE performLvnOfBlock(_, _, _, _)
performLvnOfBlock(S, b, list, i) ==
    IF i > Len(list) THEN S
    ELSE LET n  == list[i]
             S1 == lvnOverwrites(S, b, n, 1)
             S2 == lvnDefs(S1, b, n, 1)
             S3 == lvnUses(S2, b, n, 1)
         IN  IF S1.assertFailed THEN S1
             ELSE performLvnOfBlock(S3, b, list, i + 1)

\* performLvn() called again, over the blocks b.. in registry order.
RECURSIVE runLvn(_, _)
runLvn(S, b) ==
    IF b > numBlocks(S) \/ S.assertFailed THEN S
    ELSE runLvn(performLvnOfBlock(S, b, S.blocks[b].nodes, 1), b + 1)

\* ---------------------------------------------------------------------- GVN

\* findDefinitions without the else branch of lines 48-69: no PHI is created
\* in a block that has no unique predecessor.
RECURSIVE findDefinitionsNoJoin(_, _, _, _)
findDefinitionsNoJoin(S, b, ds, depth) ==
    IF b = NULLBLOCK THEN [defs |-> {}, S |-> S, diverged |-> FALSE]
    ELSE IF depth > numBlocks(S) THEN [defs |-> {}, S |-> S, diverged |-> TRUE]
    ELSE
    LET D         == S.blocks[b].definitions
        here      == get(D, ds) \cup get(D, DefSite(UNKNOWN_MEMORY, 0, UNKNOWN))
        pred      == getSinglePredecessor(S, b)
    IN  IF undefinedIntervals(D, ds) = <<>> \/ pred = NULLBLOCK
        THEN [defs |-> here, S |-> S, diverged |-> FALSE]
        ELSE LET r == findDefinitionsNoJoin(S, pred, ds, depth + 1)
             IN  [defs |-> here \cup r.defs, S |-> r.S,
                  diverged |-> r.diverged]

\* findDefinitions without the branch of lines 45-47: a PHI is created per
\* uncovered interval in every block, the unique predecessor is not asked.
findDefinitionsPhiEverywhere(S, b, ds, depth) ==
    IF b = NULLBLOCK THEN [defs |-> {}, S |-> S, diverged |-> FALSE]
    ELSE
    LET D         == S.blocks[b].definitions
        uncovered == undefinedIntervals(D, ds)
        RECURSIVE perInterval(_, _)
        perInterval(acc, i) ==
            IF i > Len(uncovered) THEN acc
            ELSE LET S2 == createPhi(acc.S, b, ds.target, uncovered[i])
                 IN  perInterval([defs |-> acc.defs \cup newPhis(acc.S, S2),
                                  S |-> S2, diverged |-> FALSE], i + 1)
    IN  perInterval([defs |-> get(D, ds)
                                \cup get(D, DefSite(UNKNOWN_MEMORY, 0, UNKNOWN)),
                     S |-> S, diverged |-> FALSE], 1)

\* findDefinitions: the definitions of ds at the end of block b, creating a PHI
\* per uncovered interval when the block has no unique predecessor and asking
\* the unique predecessor otherwise.  Returns the definitions, the changed
\* state and whether the call returns at all: the recursion through unique
\* predecessors has no visited set, and a chain of more nested calls than
\* there are blocks is inside a cycle of single-predecessor blocks whose maps
\* no call changes, so it never ends (diverged).
RECURSIVE findDefinitions(_, _, _, _)
findDefinitions(S, b, ds, depth) ==
    IF b = NULLBLOCK THEN [defs |-> {}, S |-> S, diverged |-> FALSE]
    ELSE IF depth > numBlocks(S) THEN [defs |-> {}, S |-> S, diverged |-> TRUE]
    ELSE
    LET D         == S.blocks[b].definitions
        defSet    == get(D, ds)
        unknown   == get(D, DefSite(UNKNOWN_MEMORY, 0, UNKNOWN))
        uncovered == undefinedIntervals(D, ds)
        pred      == getSinglePredecessor(S, b)
        RECURSIVE perInterval(_, _)
        perInterval(acc, i) ==
            IF i > Len(uncovered) \/ acc.diverged THEN acc
            ELSE IF pred # NULLBLOCK
            THEN LET r == findDefinitions(acc.S, pred, ds, depth + 1)
                 IN  perInterval([defs |-> acc.defs \cup r.defs, S |-> r.S,
                                  diverged |-> r.diverged], i + 1)
            ELSE LET S2 == createPhi(acc.S, b, ds.target, uncovered[i])
                 IN  perInterval([defs |-> acc.defs \cup newPhis(acc.S, S2),
                                  S |-> S2, diverged |-> FALSE], i + 1)
    IN  perInterval([defs |-> defSet \cup unknown, S |-> S,
                     diverged |-> FALSE], 1)

\* performGvn's loop over the predecessors (line 176) stopping after the
\* first predecessor.
RECURSIVE gvnPredsFirstOnly(_, _, _)
gvnPredsFirstOnly(acc, phi, i) ==
    LET block == acc.S.nodes[phi].block
        preds == acc.S.blocks[block].preds
    IN  IF i > 1 \/ i > Len(preds) \/ acc.diverged THEN acc
        ELSE LET ds == acc.S.nodes[phi].overwrites[1]
                 r  == findDefinitions(acc.S, preds[i], ds, 1)
                 S2 == [r.S EXCEPT !.nodes[phi].defuse = @ \cup r.defs]
             IN  gvnPredsFirstOnly([S |-> S2,
                                    W |-> acc.W \cup newPhis(acc.S, r.S),
                                    diverged |-> r.diverged], phi, i + 1)

\* performGvn's loop over the predecessors (line 176) ending at the first
\* null predecessor instead of skipping it.
RECURSIVE gvnPredsUntilNull(_, _, _)
gvnPredsUntilNull(acc, phi, i) ==
    LET block == acc.S.nodes[phi].block
        preds == acc.S.blocks[block].preds
    IN  IF i > Len(preds) \/ acc.diverged THEN acc
        ELSE IF preds[i] = NULLBLOCK THEN acc
        ELSE LET ds == acc.S.nodes[phi].overwrites[1]
                 r  == findDefinitions(acc.S, preds[i], ds, 1)
                 S2 == [r.S EXCEPT !.nodes[phi].defuse = @ \cup r.defs]
             IN  gvnPredsUntilNull([S |-> S2,
                                    W |-> acc.W \cup newPhis(acc.S, r.S),
                                    diverged |-> r.diverged], phi, i + 1)

\* performGvn, one iteration of the while loop for the popped PHI: for every
\* predecessor of the PHI's block, add the definitions found there to the
\* PHI's defuse and queue the PHIs the call created.  W is the worklist
\* without the popped PHI.
RECURSIVE gvnPreds(_, _, _)
gvnPreds(acc, phi, i) ==
    LET block == acc.S.nodes[phi].block
        preds == acc.S.blocks[block].preds
    IN  IF i > Len(preds) \/ acc.diverged THEN acc
        ELSE LET ds == acc.S.nodes[phi].overwrites[1]
                 r  == findDefinitions(acc.S, preds[i], ds, 1)
                 S2 == [r.S EXCEPT !.nodes[phi].defuse = @ \cup r.defs]
             IN  gvnPreds([S |-> S2, W |-> acc.W \cup newPhis(acc.S, r.S),
                           diverged |-> r.diverged], phi, i + 1)

\* One iteration of performGvn that consumes the predecessor list of the
\* PHI's block while walking it.
performGvnStepConsuming(S, W, phi) ==
    LET r == gvnPreds([S |-> S, W |-> W \ {phi}, diverged |-> FALSE], phi, 1)
    IN  [r EXCEPT !.S.blocks[S.nodes[phi].block].preds = <<>>]

\* One iteration of performGvn that also hands the definitions found to the
\* nodes that use the PHI.
performGvnStepForwarding(S, W, phi) ==
    LET r == gvnPreds([S |-> S, W |-> W \ {phi}, diverged |-> FALSE], phi, 1)
    IN  [r EXCEPT !.S.nodes =
            [n \in DOMAIN @ |->
                IF phi \in @[n].defuse
                THEN [@[n] EXCEPT !.defuse = @ \cup r.S.nodes[phi].defuse]
                ELSE @[n]]]

\* One iteration of performGvn without lines 183-188: the PHIs created by
\* the findDefinitions calls are not queued.
performGvnStepUnqueued(S, W, phi) ==
    [gvnPreds([S |-> S, W |-> W \ {phi}, diverged |-> FALSE], phi, 1)
        EXCEPT !.W = W \ {phi}]

performGvnStep(S, W, phi) ==
    gvnPreds([S |-> S, W |-> W \ {phi}, diverged |-> FALSE], phi, 1)

\* performGvn run to the end when the node addresses grow with the creation
\* order, so that the std::set pops the PHIs in registry order.
RECURSIVE gvnInRegistryOrder(_, _)
gvnInRegistryOrder(S, W) ==
    IF W = {} THEN [S |-> S, diverged |-> FALSE]
    ELSE LET r == performGvnStep(S, W, Min(W))
         IN  IF r.diverged THEN [S |-> r.S, diverged |-> TRUE]
             ELSE gvnInRegistryOrder(r.S, r.W)

\* recGatherNonPhisDefs without the visited check of lines 196-197.
RECURSIVE recGatherNonPhisDefsUnvisited(_, _, _, _)
recGatherNonPhisDefsUnvisited(S, phi, acc, depth) ==
    IF depth > Len(S.nodes) THEN [acc EXCEPT !.diverged = TRUE]
    ELSE
    LET order == SetToSeq(S.nodes[phi].defuse)
        RECURSIVE each(_, _)
        each(a, i) ==
            IF i > Len(order) \/ a.diverged THEN a
            ELSE IF ~isPhi(S, order[i])
                 THEN each([a EXCEPT !.ret = @ \cup {order[i]}], i + 1)
                 ELSE each(recGatherNonPhisDefsUnvisited(S, order[i], a,
                                                         depth + 1), i + 1)
    IN  each([acc EXCEPT !.phis = @ \cup {phi}], 1)

\* recGatherNonPhisDefs that also descends into the defuse of the nodes that
\* are not PHIs.
RECURSIVE recGatherNonPhisDefsThroughAll(_, _, _, _)
recGatherNonPhisDefsThroughAll(S, phi, acc, depth) ==
    IF depth > Len(S.nodes) THEN [acc EXCEPT !.diverged = TRUE]
    ELSE IF phi \in acc.phis THEN acc
    ELSE
    LET order == SetToSeq(S.nodes[phi].defuse)
        RECURSIVE each(_, _)
        each(a, i) ==
            IF i > Len(order) \/ a.diverged THEN a
            ELSE each(recGatherNonPhisDefsThroughAll(
                          S, order[i],
                          IF isPhi(S, order[i]) THEN a
                          ELSE [a EXCEPT !.ret = @ \cup {order[i]}],
                          depth + 1), i + 1)
    IN  each([acc EXCEPT !.phis = @ \cup {phi}], 1)

\* -------------------------------------------------------------- query layer
\* recGatherNonPhisDefs: the visited set phis cuts cycles of the PHI graph.
\* depth counts the nested calls; more nested calls than nodes would be a
\* recursion that never returns (diverged).
RECURSIVE recGatherNonPhisDefs(_, _, _, _)
recGatherNonPhisDefs(S, phi, acc, depth) ==
    IF depth > Len(S.nodes) THEN [acc EXCEPT !.diverged = TRUE]
    ELSE IF phi \in acc.phis THEN acc
    ELSE
    LET order == SetToSeq(S.nodes[phi].defuse)
        RECURSIVE each(_, _)
        each(a, i) ==
            IF i > Len(order) \/ a.diverged THEN a
            ELSE IF ~isPhi(S, order[i])
                 THEN each([a EXCEPT !.ret = @ \cup {order[i]}], i + 1)
                 ELSE each(recGatherNonPhisDefs(S, order[i], a, depth + 1),
                           i + 1)
    IN  each([acc EXCEPT !.phis = @ \cup {phi}], 1)

\* The elements of a std::set when the addresses of the nodes fall with the
\* creation order: the iteration order opposite to SetToSeq.
RECURSIVE SetToSeqBackwards(_)
SetToSeqBackwards(S) ==
    IF S = {} THEN <<>> ELSE Append(SetToSeqBackwards(S \ {Min(S)}), Min(S))

\* recGatherNonPhisDefs and gatherNonPhisDefs with every std::set iterated in
\* that opposite order.
RECURSIVE recGatherNonPhisDefsBackwards(_, _, _, _)
recGatherNonPhisDefsBackwards(S, phi, acc, depth) ==
    IF depth > Len(S.nodes) THEN [acc EXCEPT !.diverged = TRUE]
    ELSE IF phi \in acc.phis THEN acc
    ELSE
    LET order == SetToSeqBackwards(S.nodes[phi].defuse)
        RECURSIVE each(_, _)
        each(a, i) ==
            IF i > Len(order) \/ a.diverged THEN a
            ELSE IF ~isPhi(S, order[i])
                 THEN each([a EXCEPT !.ret = @ \cup {order[i]}], i + 1)
                 ELSE each(recGatherNonPhisDefsBackwards(S, order[i], a,
                                                         depth + 1), i + 1)
    IN  each([acc EXCEPT !.phis = @ \cup {phi}], 1)

gatherNonPhisDefsBackwards(S, nodes) ==
    LET order == SetToSeqBackwards(nodes)
        RECURSIVE each(_, _)
        each(a, i) ==
            IF i > Len(order) \/ a.diverged THEN a
            ELSE IF ~isPhi(S, order[i])
                 THEN each([a EXCEPT !.ret = @ \cup {order[i]}], i + 1)
                 ELSE each(recGatherNonPhisDefsBackwards(S, order[i], a, 1),
                           i + 1)
        r == each([ret |-> {}, phis |-> {}, diverged |-> FALSE], 1)
    IN  [ret |-> SetToSeq(r.ret), diverged |-> r.diverged]

\* gatherNonPhisDefs without the else branch of lines 217-219: the PHIs of
\* the container are dropped instead of flattened.
gatherNonPhisDefsDirect(S, nodes) ==
    [ret |-> SetToSeq({n \in nodes : ~isPhi(S, n)}), diverged |-> FALSE]

\* gatherNonPhisDefs: replace all PHIs of a container by their non-PHI
\* definitions; the result is the vector built from the std::set ret.
gatherNonPhisDefs(S, nodes) ==
    LET order == SetToSeq(nodes)
        RECURSIVE each(_, _)
        each(a, i) ==
            IF i > Len(order) \/ a.diverged THEN a
            ELSE IF ~isPhi(S, order[i])
                 THEN each([a EXCEPT !.ret = @ \cup {order[i]}], i + 1)
                 ELSE each(recGatherNonPhisDefs(S, order[i], a, 1), i + 1)
        r == each([ret |-> {}, phis |-> {}, diverged |-> FALSE], 1)
    IN  [ret |-> SetToSeq(r.ret), diverged |-> r.diverged]

\* All nodes held by a definitions map.
definedNodes(D) == UNION {D[t][b] : t \in AllTargets, b \in Bytes}

\* findAllReachingDefinitions(from), first part: replay the LVN rules over
\* the nodes of from's block that precede from, into a local map.
RECURSIVE replayDefSites(_, _, _, _, _)
replayDefSites(D, n, sites, strong, i) ==
    IF i > Len(sites) THEN D
    ELSE LET ds == sites[i]
             D1 == IF strong THEN update(D, ds, n)
                   ELSE IF ds.target = UNKNOWN_MEMORY
                        THEN add(addAll(D, n), DefSite(ds.target, 0, UNKNOWN), n)
                        ELSE add(D, ds, n)
         IN  replayDefSites(D1, n, sites, strong, i + 1)

RECURSIVE replayBlock(_, _, _, _, _)
replayBlock(S, D, order, from, i) ==
    IF i > Len(order) \/ order[i] = from THEN D
    ELSE LET n  == order[i]
             D1 == replayDefSites(D, n, S.nodes[n].overwrites, TRUE, 1)
             D2 == replayDefSites(D1, n, S.nodes[n].defs, FALSE, 1)
         IN  replayBlock(S, D2, order, from, i + 1)

\* The recursive helper, lines 308-328: merge the definitions of block b into
\* the local map.  A target the map does not define yet is copied whole and
\* its nodes are added to foundDefs; for a target it defines, only the
\* uncovered bytes of every key interval are added to the map, and foundDefs
\* is left alone.
RECURSIVE mergeKeys(_, _, _, _)
mergeKeys(D, t, keys, i) ==
    IF i > Len(keys) THEN D
    ELSE LET uncovered == undefinedIntervals(D, DefSite(t, keys[i].start,
                                                        keys[i].len))
             RECURSIVE fill(_, _)
             fill(D1, j) ==
                 IF j > Len(uncovered) THEN D1
                 ELSE fill(addSet(D1, DefSite(t, uncovered[j].start,
                                              uncovered[j].len),
                                  keys[i].vals), j + 1)
         IN  mergeKeys(fill(D, 1), t, keys, i + 1)

\* The nodes mergeKeys copies into D (history): the values of the keys that
\* have an uncovered interval when their turn comes.
RECURSIVE copiedByMergeKeys(_, _, _, _)
copiedByMergeKeys(D, t, keys, i) ==
    IF i > Len(keys) THEN {}
    ELSE (IF undefinedIntervals(D, DefSite(t, keys[i].start, keys[i].len)) # <<>>
          THEN keys[i].vals ELSE {})
         \cup copiedByMergeKeys(mergeKeys(D, t, <<keys[i]>>, 1), t, keys, i + 1)

\* unfound (history): the nodes copied into the map for a target it already
\* defined that were not in foundDefs at that moment.
RECURSIVE mergeBlockDefinitions(_, _, _, _)
mergeBlockDefinitions(acc, BD, targets, i) ==
    IF i > Len(targets) THEN acc
    ELSE LET t == targets[i]
         IN  IF ~definesTarget(acc.D, t)
             THEN mergeBlockDefinitions(
                      [acc EXCEPT !.D = addEntry(@, t, BD[t]),
                                  !.foundDefs = @ \cup UNION {BD[t][b] : b \in Bytes}],
                      BD, targets, i + 1)
             ELSE mergeBlockDefinitions(
                      [acc EXCEPT !.D = mergeKeys(@, t, entryKeys(BD[t]), 1),
                                  !.unfound =
                                      @ \cup (copiedByMergeKeys(acc.D, t,
                                                  entryKeys(BD[t]), 1)
                                              \ acc.foundDefs)],
                      BD, targets, i + 1)

\* The targets a map has an entry for, in the map's iteration order.
definedTargets(D) ==
    SelectSeq(<<"t", UNKNOWN_MEMORY>>, LAMBDA t : definesTarget(D, t))

\* findAllReachingDefinitions(defs, from, foundDefs, visitedBlocks): the
\* recursive predecessor walk.  acc carries foundDefs and visitedBlocks
\* (both passed by reference); D is the caller's map, or its copy.
RECURSIVE findAllReachingDefinitionsRec(_, _, _, _, _)
RECURSIVE recursIntoPredecessors(_, _, _, _, _)

\* Lines 279-287 and 330-338: recurse into the predecessors of block from
\* with the map D, or with a copy of it for each of several predecessors.
recursIntoPredecessors(S, D, from, acc, depth) ==
    LET preds == S.blocks[from].preds
        RECURSIVE eachPred(_, _)
        eachPred(a, i) ==
            IF i > Len(preds) THEN a
            ELSE eachPred(findAllReachingDefinitionsRec(S, D, preds[i], a,
                                                        depth + 1), i + 1)
    IN  IF getSinglePredecessor(S, from) # NULLBLOCK
        THEN findAllReachingDefinitionsRec(S, D, getSinglePredecessor(S, from),
                                           acc, depth + 1)
        ELSE eachPred(acc, 1)

\* Lines 302-328, with m the result of merging the definitions of from.
mergedInto(acc, from, m) ==
    [acc EXCEPT !.visitedBlocks = @ \cup {from},
                !.foundDefs = m.foundDefs,
                !.unfound = m.unfound,
                !.merged = Append(@, from)]

mergeAndRecurse(S, from, acc, depth, m) ==
    recursIntoPredecessors(S, m.D, from, mergedInto(acc, from, m), depth)

findAllReachingDefinitionsRec(S, D, from, acc, depth) ==
    IF from = NULLBLOCK THEN acc
    ELSE IF depth > numBlocks(S) + 1 THEN [acc EXCEPT !.diverged = TRUE]
    ELSE IF from \in acc.visitedBlocks THEN acc
    ELSE mergeAndRecurse(S, from, acc, depth,
             mergeBlockDefinitions([D |-> D, foundDefs |-> acc.foundDefs,
                                    unfound |-> acc.unfound],
                                   S.blocks[from].definitions,
                                   definedTargets(S.blocks[from].definitions),
                                   1))

\* The walk of lines 267-287 with the block of the query put into
\* visitedBlocks before the recursion.
walkPredecessorsFromVisited(S, block, defs) ==
    recursIntoPredecessors(S, defs, block,
                           [foundDefs |-> definedNodes(defs),
                            visitedBlocks |-> {block}, merged |-> <<>>,
                            unfound |-> {}, diverged |-> FALSE], 0)

\* Lines 267-287: foundDefs starts as the nodes of the local map, and
\* visitedBlocks empty (the block itself may be its own predecessor).
walkPredecessors(S, block, defs) ==
    recursIntoPredecessors(S, defs, block,
                           [foundDefs |-> definedNodes(defs),
                            visitedBlocks |-> {}, merged |-> <<>>,
                            unfound |-> {}, diverged |-> FALSE], 0)

\* Line 294, and what the call leaves: the vector gatherNonPhisDefs built
\* (g) from the foundDefs of the walk.
fallbackResult(S, walked, g) ==
    [ret |-> g.ret, diverged |-> walked.diverged \/ g.diverged,
     merged |-> walked.merged, unfound |-> walked.unfound, S |-> S]

gatherFoundDefs(S, walked) ==
    fallbackResult(S, walked, gatherNonPhisDefs(S, walked.foundDefs))

\* findAllReachingDefinitions with defs bound to the block's own map instead
\* of a local one: the replay of lines 246-265 is written into the analysis
\* state.
findAllReachingDefinitionsInPlace(S, from) ==
    LET block == S.nodes[from].block
        defs  == replayBlock(S, S.blocks[block].definitions,
                             S.blocks[block].nodes, from, 1)
    IN  [gatherFoundDefs(S, walkPredecessors(S, block, defs)) EXCEPT
            !.S = [S EXCEPT !.blocks[block].definitions = defs]]

\* findAllReachingDefinitions(from): the fallback query.  merged lists the
\* blocks whose definitions were merged, in order.  defs, tmpDefs, foundDefs
\* and visitedBlocks are locals of the call: the analysis state S is returned
\* as it was passed.
findAllReachingDefinitions(S, from) ==
    gatherFoundDefs(S,
        walkPredecessors(S, S.nodes[from].block,
            replayBlock(S, EmptyDefinitions,
                        S.blocks[S.nodes[from].block].nodes, from, 1)))

\* The three fields getReachingDefinitions hands back.
returned(r) == [ret |-> r.ret, diverged |-> r.diverged, S |-> r.S]

flattened(S, g) == [ret |-> g.ret, diverged |-> g.diverged, S |-> S]

\* getReachingDefinitions that consumes what it reads: the flattening path
\* moves the defuse set of the node out, the fallback path moves the
\* definitions of the blocks out.
getReachingDefinitionsMoving(S, use) ==
    IF usesUnknown(S, use)
    THEN [returned(findAllReachingDefinitions(S, use)) EXCEPT
             !.S = [S EXCEPT !.blocks =
                       [b \in 1 .. Len(S.blocks) |->
                           [S.blocks[b] EXCEPT
                               !.definitions = EmptyDefinitions]]]]
    ELSE flattened([S EXCEPT !.nodes[use].defuse = {}],
                   gatherNonPhisDefs(S, S.nodes[use].defuse))

\* getReachingDefinitions(use): the returned vector, whether the call
\* returns, and the analysis state it leaves.
getReachingDefinitions(S, use) ==
    IF usesUnknown(S, use)
    THEN returned(findAllReachingDefinitions(S, use))
    ELSE flattened(S, gatherNonPhisDefs(S, S.nodes[use].defuse))

\* ------------------------------------------------------------------- inputs
\* The def-sites with known offset and length inside the object.
KnownSites ==
    {ds \in [target : Targets, offset : Bytes, len : 1 .. MaxOff] :
        ds.offset + ds.len <= MaxOff}

UnknownOffsetSite == DefSite("t", UNKNOWN, UNKNOWN)
UnknownMemorySite == DefSite(UNKNOWN_MEMORY, UNKNOWN, UNKNOWN)

Kind(o, d, u) == [overwrites |-> o, defs |-> d, uses |-> u]

\* What the frontend may put in one node, by role.
StrongKinds == {Kind(<<ds>>, <<>>, <<>>) : ds \in KnownSites}
WeakKinds ==
    {Kind(<<>>, <<ds>>, <<>>) : ds \in KnownSites \cup {UnknownOffsetSite,
                                                       UnknownMemorySite}}
WriterKinds == StrongKinds \cup WeakKinds
KnownUseKinds == {Kind(<<>>, <<>>, <<ds>>) : ds \in KnownSites}
UnknownUseKinds ==
    {Kind(<<>>, <<>>, <<ds>>) : ds \in {UnknownOffsetSite, UnknownMemorySite}}
UseKinds == KnownUseKinds \cup UnknownUseKinds
\* Nodes with several def-sites: two weak defs, a def to unknown memory
\* followed by a known def, an overwrite or a def together with a use.
MixedKinds ==
    {Kind(<<>>, <<d1, d2>>, <<>>) : d1 \in KnownSites, d2 \in KnownSites}
    \cup {Kind(<<>>, <<UnknownMemorySite, d>>, <<>>) : d \in KnownSites}
    \cup {Kind(<<o>>, <<>>, <<u>>) : o \in KnownSites, u \in KnownSites}
    \cup {Kind(<<>>, <<d>>, <<u>>) : d \in KnownSites, u \in KnownSites}
    \cup {Kind(<<o>>, <<d>>, <<>>) : o \in KnownSites, d \in KnownSites}

\* Overwrites the frontend must not supply: an unknown offset, unknown
\* memory, alone or after a valid overwrite in the same node.
FatalKinds ==
    {Kind(<<ds>>, <<>>, <<>>) : ds \in {UnknownOffsetSite, UnknownMemorySite}}
    \cup {Kind(<<o, ds>>, <<>>, <<>>) :
              o \in KnownSites, ds \in {UnknownOffsetSite, UnknownMemorySite}}

RoleKinds(role) ==
    CASE role = "w" -> WriterKinds
      [] role = "f" -> StrongKinds \cup FatalKinds
      [] role = "s" -> StrongKinds
      [] role = "u" -> UseKinds
      [] role = "k" -> KnownUseKinds
      [] role = "x" -> UnknownUseKinds
      [] role = "m" -> MixedKinds

Slot(b, role) == [block |-> b, role |-> role]

\* Control-flow graphs (the predecessor vector of every block) with the
\* places of their nodes, in program order inside a block.
Layouts ==
    { \* one block: writer, writer, use
      [preds |-> << <<>> >>,
       slots |-> <<Slot(1, "w"), Slot(1, "w"), Slot(1, "u")>>],
      \* straight line 1 -> 2, the use in the second block after a writer
      [preds |-> << <<>>, <<1>> >>,
       slots |-> <<Slot(1, "w"), Slot(2, "w"), Slot(2, "u")>>],
      \* straight line 1 -> 2 -> 3
      [preds |-> << <<>>, <<1>>, <<2>> >>,
       slots |-> <<Slot(1, "w"), Slot(2, "w"), Slot(3, "k")>>],
      \* diamond 1 -> {2, 3} -> 4
      [preds |-> << <<>>, <<1>>, <<1>>, <<2, 3>> >>,
       slots |-> <<Slot(2, "w"), Slot(3, "w"), Slot(4, "u")>>],
      \* loop: entry 1, header 2, latch 3 (2 -> 3 -> 2)
      [preds |-> << <<>>, <<1, 3>>, <<2>> >>,
       slots |-> <<Slot(1, "w"), Slot(2, "u"), Slot(3, "w")>>],
      \* self-loop on block 2, the writer after the use
      [preds |-> << <<>>, <<1, 2>> >>,
       slots |-> <<Slot(1, "w"), Slot(2, "k"), Slot(2, "w")>>],
      \* irreducible loop: 1 -> 2, 1 -> 3, 2 <-> 3, two uses
      [preds |-> << <<>>, <<1, 3>>, <<1, 2>> >>,
       slots |-> <<Slot(1, "s"), Slot(2, "k"), Slot(3, "k")>>],
      \* a cycle made of single-predecessor blocks: 1 -> 1, 1 -> 2
      [preds |-> << <<1>>, <<1>> >>,
       slots |-> <<Slot(1, "w"), Slot(2, "k")>>],
      \* diamond with a tail: 1 -> {2, 3} -> 4 -> 5, the use in block 5
      [preds |-> << <<>>, <<1>>, <<1>>, <<2, 3>>, <<4>> >>,
       slots |-> <<Slot(2, "w"), Slot(2, "s"), Slot(3, "s"), Slot(5, "k")>>],
      \* a dead predecessor: block 2 is entered from a null block and from 1
      [preds |-> << <<>>, <<NULLBLOCK, 1>> >>,
       slots |-> <<Slot(1, "w"), Slot(2, "u")>>]
    }

\* Single-block inputs with a node that has several def-sites.
LocalLayouts ==
    { [preds |-> << <<>> >>,
       slots |-> <<Slot(1, "w"), Slot(1, "m")>>],
      [preds |-> << <<1>> >>,
       slots |-> <<Slot(1, "k"), Slot(1, "w"), Slot(1, "w"), Slot(1, "k")>>] }

\* Inputs in which a node may carry an overwrite that fails the assertions
\* of performLvn.
FatalLayouts ==
    { [preds |-> << <<>> >>,
       slots |-> <<Slot(1, "w"), Slot(1, "f"), Slot(1, "u")>>],
      [preds |-> << <<>>, <<1>>, <<1, 2>> >>,
       slots |-> <<Slot(1, "s"), Slot(2, "f"), Slot(3, "u")>>] }

\* The graph the frontend builds for a layout and a choice f of node kinds.
buildGraph(L, f) ==
    LET n == Len(L.slots)
        ids == [i \in 1 .. n |-> i]
    IN  [nodes |-> [i \in 1 .. n |->
                       RWNode("GENERIC", L.slots[i].block, f[i].overwrites,
                              f[i].defs, f[i].uses)],
         blocks |-> [b \in 1 .. Len(L.preds) |->
                       [nodes |-> SelectSeq(ids,
                                            LAMBDA i : L.slots[i].block = b),
                        preds |-> L.preds[b],
                        definitions |-> EmptyDefinitions]],
         _phis |-> <<>>,
         assertFailed |-> FALSE]

\* -------------------------------------------------------------------- state
VARIABLES
    nodes,         \* RWGraph: every node created so far, by id
    blocks,        \* RWGraph: the blocks (node list, predecessors, definitions)
    _phis,         \* the PHI registry of the transformation
    assertFailed,  \* an assertion of the analysis has failed
    pc,            \* "lvn", "lvn_done", "gvn", "done" or "diverged"
    cur,           \* performLvn: the block, node and stage being processed
    phis,          \* performGvn: the local worklist of PHIs
    query,         \* the last getReachingDefinitions call and its result;
                   \* calls: 2 when the call before it was for the same
                   \* node, prev: what that call returned
    im,            \* an IntervalMap (Srg/IntervalMap.h): its buckets, the
                   \* number of values added, and the last call with what
                   \* it returned
    dis,           \* a DisjointIntervalSet (Srg/IntervalMap.h): its intervals
                   \* and the intervals inserted so far (history)
    du,            \* LLVMDefUseAnalysis (llvm/DefUse.cpp): the nodes and
                   \* blocks of the dependence graph, the DefMap of every
                   \* node, and the last runOnNode call with what it returned
    popped         \* performGvn: how often each PHI was popped off the
                   \* worklist (history)

vars == <<nodes, blocks, _phis, assertFailed, pc, cur, phis, query, im, dis, du,
          popped>>

\* The analysis state as the operators above take it.
St == [nodes |-> nodes, blocks |-> blocks, _phis |-> _phis,
       assertFailed |-> assertFailed]

Becomes(S) ==
    /\ nodes' = S.nodes
    /\ blocks' = S.blocks
    /\ _phis' = S._phis
    /\ assertFailed' = S.assertFailed

NoQuery == [use |-> 0, ret |-> <<>>, diverged |-> FALSE,
            calls |-> 0, prev |-> <<>>]

\* How often performGvn has popped each PHI off its worklist (line 168): no
\* PHI yet, and one more pop of phi.
NonePopped == <<>>
popOnceMore(count, phi) ==
    IF phi \in DOMAIN count THEN [count EXCEPT ![phi] = @ + 1]
    ELSE count @@ (phi :> 1)

\* An IntervalMap as constructed, before any call.
NoCall == [name |-> "none"]
NoIntervalMap == [buckets |-> <<>>, added |-> 0, call |-> NoCall]

\* DisjointIntervalSet(): no interval.
NoIntervals == [intervals |-> <<>>, inserted |-> <<>>]

\* No dependence graph is analysed.
NoDefUse == [nodes |-> <<>>, blocks |-> <<>>, defmaps |-> <<>>,
             call |-> [node |-> 0]]

\* Every choice of node kinds for a sequence of slots.
RECURSIVE kindChoices(_)
kindChoices(slots) ==
    IF slots = <<>> THEN {<<>>}
    ELSE {<<k>> \o r : k \in RoleKinds(Head(slots).role),
                       r \in kindChoices(Tail(slots))}

InitFrom(LS) ==
    \E L \in LS :
    \E f \in kindChoices(L.slots) :
        /\ LET S == buildGraph(L, f)
           IN  /\ nodes = S.nodes
               /\ blocks = S.blocks
               /\ _phis = S._phis
               /\ assertFailed = S.assertFailed
               /\ cur = lvnCursor(S, 1, 1)
        /\ pc = "lvn"
        /\ phis = {}
        /\ query = NoQuery
        /\ im = NoIntervalMap
        /\ dis = NoIntervals
        /\ du = NoDefUse
        /\ popped = NonePopped

Init == InitFrom(Layouts)

InitLocal == InitFrom(LocalLayouts)

InitFatal == InitFrom(FatalLayouts)

curNode == origNodes(St, cur.block)[cur.idx]

\* performLvn, lines 117-122: the strong updates of the current node.  A
\* failed assertion aborts the analysis.
LvnOverwrites ==
    /\ pc = "lvn" /\ cur.stage = "overwrites"
    /\ Becomes(lvnOverwrites(St, cur.block, curNode, 1))
    /\ pc' = IF assertFailed' THEN "aborted" ELSE pc
    /\ cur' = IF assertFailed' THEN cur ELSE [cur EXCEPT !.stage = "defs"]
    /\ UNCHANGED <<phis, query, im, dis, du, popped>>

\* performLvn, lines 125-145: the weak updates of the current node.
LvnDefs ==
    /\ pc = "lvn" /\ cur.stage = "defs"
    /\ Becomes(lvnDefs(St, cur.block, curNode, 1))
    /\ cur' = [cur EXCEPT !.stage = "uses"]
    /\ UNCHANGED <<pc, phis, query, im, dis, du, popped>>

\* performLvn, lines 148-150: the uses of the current node; then the loops
\* of performLvn(block) and performLvn() move on to the next node.
LvnUses ==
    /\ pc = "lvn" /\ cur.stage = "uses"
    /\ LET S2   == lvnUses(St, cur.block, curNode, 1)
           next == lvnCursor(S2, cur.block, cur.idx + 1)
       IN  /\ Becomes(S2)
           /\ cur' = next
           /\ pc' = IF next.block = 0 THEN "lvn_done" ELSE "lvn"
    /\ UNCHANGED <<phis, query, im, dis, du, popped>>

\* performLvn() called a second time before GVN.  The run is not followed
\* beyond this call.
LvnAgain ==
    /\ pc = "lvn_done"
    /\ Becomes(runLvn(St, 1))
    /\ pc' = "lvn_again"
    /\ UNCHANGED <<cur, phis, query, im, dis, du, popped>>

\* performGvn, line 164: the worklist starts as the set of registered PHIs.
GvnBegin ==
    /\ pc = "lvn_done"
    /\ pc' = "gvn"
    /\ phis' = SeqToSet(_phis)
    /\ UNCHANGED <<nodes, blocks, _phis, assertFailed, cur, query, im, dis, du, popped>>

\* performGvn, lines 166-190: one iteration of the while loop.  The worklist
\* is a std::set ordered by node address, so the PHI popped is any of them.
\* A findDefinitions call that never returns leaves the analysis diverged.
GvnPop ==
    /\ pc = "gvn" /\ phis # {}
    /\ \E phi \in phis :
        LET r == performGvnStep(St, phis, phi)
        IN  /\ Becomes(r.S)
            /\ phis' = r.W
            /\ pc' = IF r.diverged THEN "diverged" ELSE "gvn"
            /\ popped' = popOnceMore(popped, phi)
    /\ UNCHANGED <<cur, query, im, dis, du>>

\* performGvn, line 166: the loop ends when the worklist is empty.
GvnEnd ==
    /\ pc = "gvn" /\ phis = {}
    /\ pc' = "done"
    /\ UNCHANGED <<nodes, blocks, _phis, assertFailed, cur, phis, query, im, dis, du,
                 popped>>

\* The call getReachingDefinitions(use) returned r: the state is as the call
\* left it, and the result is recorded beside the result of the call before
\* when that was for the same node.
Answered(use, r) ==
    /\ Becomes(r.S)
    /\ query' = [use |-> use, ret |-> r.ret, diverged |-> r.diverged,
                 calls |-> IF query.use = use THEN 2 ELSE 1,
                 prev |-> IF query.use = use THEN query.ret ELSE <<>>]

\* getReachingDefinitions(use) on a node of the frontend, after the analysis.
Query ==
    /\ pc = "done"
    /\ \E use \in 1 .. Len(nodes) :
        /\ ~isPhi(St, use)
        /\ Answered(use, getReachingDefinitions(St, use))
    /\ UNCHANGED <<pc, cur, phis, im, dis, du, popped>>

Next ==
    \/ LvnOverwrites
    \/ LvnDefs
    \/ LvnUses
    \/ LvnAgain
    \/ GvnBegin
    \/ GvnPop
    \/ GvnEnd
    \/ Query

Spec == Init /\ [][Next]_vars

SpecLocal == InitLocal /\ [][Next]_vars

SpecFatal == InitFatal /\ [][Next]_vars

\* ------------------------------------------------- reference: what may reach
\* The blocks control may enter after block b.
succBlocks(S, b) ==
    {c \in 1 .. numBlocks(S) : b \in SeqToSet(S.blocks[c].preds)}

\* The first frontend nodes control may execute on entering a block of bs,
\* passing through blocks without nodes (seen: blocks already passed).
RECURSIVE firstNodes(_, _, _)
firstNodes(S, bs, seen) ==
    LET empty == {b \in bs : origNodes(S, b) = <<>>}
        heads == {origNodes(S, b)[1] : b \in bs \ empty}
        more  == UNION {succBlocks(S, b) : b \in empty} \ (seen \cup bs)
    IN  IF more = {} THEN heads
        ELSE heads \cup firstNodes(S, more, seen \cup bs)

\* The frontend nodes control may execute right after node n.
nextNodes(S, n) ==
    LET b    == S.nodes[n].block
        orig == origNodes(S, b)
        i    == CHOOSE k \in 1 .. Len(orig) : orig[k] = n
    IN  IF i < Len(orig) THEN {orig[i + 1]}
        ELSE firstNodes(S, succBlocks(S, b), {})

\* Node n strongly overwrites byte b of target t.
overwritesByte(S, n, t, b) ==
    \E i \in 1 .. Len(S.nodes[n].overwrites) :
        /\ S.nodes[n].overwrites[i].target = t
        /\ b \in getInterval(S.nodes[n].overwrites[i])

\* Node n may write byte b of target t: by an overwrite, by a weak def of t,
\* or by a weak def of unknown memory.
writesByte(S, n, t, b) ==
    \/ overwritesByte(S, n, t, b)
    \/ \E i \in 1 .. Len(S.nodes[n].defs) :
        \/ S.nodes[n].defs[i].target = UNKNOWN_MEMORY
        \/ /\ S.nodes[n].defs[i].target = t
           /\ b \in getInterval(S.nodes[n].defs[i])

\* Node n reads byte b of target t.
usesByte(S, n, t, b) ==
    \E i \in 1 .. Len(S.nodes[n].uses) :
        /\ S.nodes[n].uses[i].target = t
        /\ b \in getInterval(S.nodes[n].uses[i])

\* The nodes control may reach from node w along a path none of whose
\* intermediate nodes strongly overwrites byte b of target t.
RECURSIVE reachedAlive(_, _, _, _, _)
reachedAlive(S, t, b, frontier, reached) ==
    LET through == {n \in frontier : ~overwritesByte(S, n, t, b)}
        new     == UNION {nextNodes(S, n) : n \in through} \ (reached \cup frontier)
    IN  IF new = {} THEN reached \cup frontier
        ELSE reachedAlive(S, t, b, new, reached \cup frontier)

mayReach(S, w, u, t, b) ==
    /\ writesByte(S, w, t, b)
    /\ usesByte(S, u, t, b)
    /\ u \in reachedAlive(S, t, b, nextNodes(S, w), {})

frontendNodes(S) == {n \in 1 .. Len(S.nodes) : ~isPhi(S, n)}

\* The graph as the frontend supplied it: no PHI, no definitions, no defuse.
frontendGraph(S) ==
    [nodes |-> [n \in frontendNodes(S) |-> [S.nodes[n] EXCEPT !.defuse = {}]],
     blocks |-> [b \in 1 .. numBlocks(S) |->
                   [nodes |-> origNodes(S, b),
                    preds |-> S.blocks[b].preds,
                    definitions |-> EmptyDefinitions]],
     _phis |-> <<>>,
     assertFailed |-> FALSE]

\* The whole analysis on the frontend's graph, GVN popping in registry order.
analysedInRegistryOrder(S) ==
    LET G == frontendGraph(S)
        L == performLvn(G, lvnCursor(G, 1, 1))
    IN  gvnInRegistryOrder(L, SeqToSet(L._phis))

\* A node's identity across runs: a frontend node is its id, a PHI is its
\* block and the def-site it summarizes.
canonId(S, n) ==
    IF isPhi(S, n) THEN <<S.nodes[n].block, S.nodes[n].overwrites[1]>>
    ELSE <<n>>

\* Every node's defuse set, by identity.
canonDefuse(S) ==
    {<<canonId(S, n), {canonId(S, m) : m \in S.nodes[n].defuse}>> :
        n \in 1 .. Len(S.nodes)}

\* The blocks reached from block b through unique predecessors, b included.
RECURSIVE singlePredChain(_, _, _)
singlePredChain(S, b, seen) ==
    IF b = NULLBLOCK \/ b \in seen THEN seen
    ELSE singlePredChain(S, getSinglePredecessor(S, b), seen \cup {b})

\* --------------------------------------------------------------- properties
\* The result of the last query, as a set.
queryRet == SeqToSet(query.ret)

\* Node u reads memory and every use names a known target and offset.
knownUse(S, u) == S.nodes[u].uses # <<>> /\ ~usesUnknown(S, u)

\* C1 -- soundness for known uses: the reaching definitions of a use of
\* known ranges contain every frontend node w that writes a byte the use
\* reads and from which control reaches the use along a path no intermediate
\* node of which strongly overwrites that byte.
SoundForKnownUses ==
    (query.use # 0 /\ knownUse(St, query.use)) =>
        \A w \in frontendNodes(St) : \A t \in Targets : \A b \in Bytes :
            mayReach(St, w, query.use, t, b) => w \in queryRet

\* C2 -- GVN termination: no findDefinitions call of performGvn fails to
\* return, whatever the control flow.
GvnTerminates == pc # "diverged"

\* C3 -- non-self-definition: a frontend node with weak definitions is never
\* a member of its own defuse set.
NonSelfDefinition ==
    \A n \in frontendNodes(St) :
        nodes[n].defs # <<>> => n \notin nodes[n].defuse

\* LVN has just processed the overwrites of a node with one overwrite.
afterSingleOverwrite ==
    /\ pc = "lvn"
    /\ cur.stage = "defs"
    /\ Len(nodes[curNode].overwrites) = 1

\* C4 -- strong-update kill: right after LVN processes the overwrites of a
\* node with the single overwrite (t, s, l), the block's definitions map
\* answers get((t, s, l)) with exactly that node.
StrongUpdateKills ==
    afterSingleOverwrite =>
        get(blocks[cur.block].definitions, nodes[curNode].overwrites[1])
            = {curNode}

\* C4, its case: an earlier node of the block wrote a byte of the range.
StrongUpdateKillsSeen ==
    /\ afterSingleOverwrite
    /\ \E i \in 1 .. (cur.idx - 1) :
       \E b \in getInterval(nodes[curNode].overwrites[1]) :
           writesByte(St, origNodes(St, cur.block)[i],
                      nodes[curNode].overwrites[1].target, b)
    /\ get(blocks[cur.block].definitions, nodes[curNode].overwrites[1])
           = {curNode}

\* C5 -- PHI resolution totality: after GVN, the defuse set of every PHI
\* holds, for every predecessor P of the PHI's block, a node of P or of a
\* block reached from P through unique predecessors.
PhiResolutionTotal ==
    pc = "done" =>
        \A phi \in SeqToSet(_phis) :
        \A i \in 1 .. Len(blocks[nodes[phi].block].preds) :
            LET P == blocks[nodes[phi].block].preds[i]
            IN  P # NULLBLOCK =>
                    \E m \in nodes[phi].defuse :
                        nodes[m].block \in singlePredChain(St, P, {})

\* C5, its case: a resolved PHI of a block with two predecessors whose
\* defuse set holds nodes of two different blocks.
PhiResolutionTotalSeen ==
    /\ pc = "done"
    /\ \E phi \in SeqToSet(_phis) :
        /\ Len(blocks[nodes[phi].block].preds) >= 2
        /\ \E m1 \in nodes[phi].defuse : \E m2 \in nodes[phi].defuse :
               nodes[m1].block # nodes[m2].block
        /\ \A i \in 1 .. Len(blocks[nodes[phi].block].preds) :
               \E m \in nodes[phi].defuse :
                   nodes[m].block \in
                       singlePredChain(St, blocks[nodes[phi].block].preds[i], {})

\* Two different PHIs of one block that summarize the same target.
samePlace(p, q) ==
    /\ p # q
    /\ nodes[p].block = nodes[q].block
    /\ nodes[p].overwrites[1].target = nodes[q].overwrites[1].target

\* C6 -- PHI uniqueness per gap: two different PHIs of one block with the
\* same target summarize disjoint byte intervals (at every point of the
\* analysis, so in particular after LVN).
PhiPerGapUnique ==
    \A p \in SeqToSet(_phis) : \A q \in SeqToSet(_phis) :
        samePlace(p, q) =>
            getInterval(nodes[p].overwrites[1])
                \cap getInterval(nodes[q].overwrites[1]) = {}

\* C6, its case: LVN is over, and a block has two PHIs for one target, the
\* first of them killed from the block's map by a later strong update.
PhiPerGapUniqueSeen ==
    /\ pc = "lvn_done"
    /\ \E p \in SeqToSet(_phis) : \E q \in SeqToSet(_phis) :
        /\ samePlace(p, q)
        /\ p < q
        /\ p \notin get(blocks[nodes[p].block].definitions,
                        nodes[p].overwrites[1])
        /\ getInterval(nodes[p].overwrites[1])
               \cap getInterval(nodes[q].overwrites[1]) = {}

\* C7 -- cycle safety: every query returns, and returns frontend nodes only,
\* none of them twice.
QueryCycleSafe ==
    query.use # 0 =>
        /\ ~query.diverged
        /\ \A i \in 1 .. Len(query.ret) : ~isPhi(St, query.ret[i])
        /\ \A i \in 1 .. Len(query.ret) : \A j \in 1 .. Len(query.ret) :
               i # j => query.ret[i] # query.ret[j]

\* C7, its case: the query flattened a PHI that is in its own defuse set.
QueryCycleSafeSeen ==
    /\ query.use # 0
    /\ ~usesUnknown(St, query.use)
    /\ ~query.diverged
    /\ \E phi \in nodes[query.use].defuse :
           isPhi(St, phi) /\ phi \in nodes[phi].defuse
    /\ \A i \in 1 .. Len(query.ret) : ~isPhi(St, query.ret[i])

\* C8 -- fallback completeness: the reaching definitions of a use of unknown
\* memory or of an unknown offset contain every frontend node that writes a
\* byte and from which control reaches the use along a path no intermediate
\* node of which strongly overwrites that byte.
FallbackComplete ==
    (query.use # 0 /\ usesUnknown(St, query.use)) =>
        \A w \in frontendNodes(St) : \A t \in Targets : \A b \in Bytes :
            ( /\ writesByte(St, w, t, b)
              /\ query.use \in reachedAlive(St, t, b, nextNodes(St, w), {}) )
                => w \in queryRet

\* C9 -- determinism: whichever PHI the worklist of performGvn yields next,
\* the final defuse set of every node (a PHI identified by its block, target
\* and interval) is the one obtained by popping in registry order.
DeterministicDefuse ==
    pc = "done" =>
        canonDefuse(St) = canonDefuse(analysedInRegistryOrder(St).S)

\* The position of frontend node n in its block.
posInBlock(S, n) ==
    LET orig == origNodes(S, S.nodes[n].block)
    IN  CHOOSE k \in 1 .. Len(orig) : orig[k] = n

\* The frontend nodes that precede u in u's block.
nodesBefore(S, u) ==
    LET orig == origNodes(S, S.nodes[u].block)
    IN  {orig[k] : k \in 1 .. (posInBlock(S, u) - 1)}

\* The (target, byte) pairs node u reads.
usedBytes(S, u) ==
    {tb \in Targets \X Bytes : usesByte(S, u, tb[1], tb[2])}

\* The nodes before u in its block that strongly overwrite byte b of t.
overwritersBefore(S, u, t, b) ==
    {n \in nodesBefore(S, u) : overwritesByte(S, n, t, b)}

\* Every byte u reads is strongly overwritten earlier in u's block.
coveredLocally(S, u) ==
    /\ knownUse(S, u)
    /\ \A tb \in usedBytes(S, u) : overwritersBefore(S, u, tb[1], tb[2]) # {}

\* The position of the last strong overwriter of byte b of t before u.
lastOverwrite(S, u, t, b) ==
    LET ps == {posInBlock(S, n) : n \in overwritersBefore(S, u, t, b)}
    IN  CHOOSE k \in ps : \A j \in ps : j <= k

\* Node w weakly defines byte b of t, or unknown memory.
weaklyWrites(S, w, t, b) ==
    \E i \in 1 .. Len(S.nodes[w].defs) :
        \/ S.nodes[w].defs[i].target = UNKNOWN_MEMORY
        \/ /\ S.nodes[w].defs[i].target = t
           /\ b \in getInterval(S.nodes[w].defs[i])

\* The last strong overwriters of the bytes u reads, and the weak definitions
\* that follow the last overwriter of a byte they may write.
lastWriters(S, u) ==
    {n \in nodesBefore(S, u) :
        \E tb \in usedBytes(S, u) :
            \/ /\ overwritesByte(S, n, tb[1], tb[2])
               /\ posInBlock(S, n) = lastOverwrite(S, u, tb[1], tb[2])
            \/ /\ weaklyWrites(S, n, tb[1], tb[2])
               /\ posInBlock(S, n) > lastOverwrite(S, u, tb[1], tb[2])}

\* The nodes before u in its block with a weak definition of unknown memory.
unknownWritersBefore(S, u) ==
    {n \in nodesBefore(S, u) :
        \E i \in 1 .. Len(S.nodes[n].defs) :
            S.nodes[n].defs[i].target = UNKNOWN_MEMORY}

\* No PHI was created for node u.
noPhiFor(S, u) == \A m \in S.nodes[u].defuse : ~isPhi(S, m)

readsOnly(S, u) == S.nodes[u].overwrites = <<>> /\ S.nodes[u].defs = <<>>

RECURSIVE demandBlock(_, _, _)
demandBlock(S, b, seen) ==
    IF b \in seen THEN NULLBLOCK
    ELSE IF getSinglePredecessor(S, b) = NULLBLOCK THEN b
    ELSE demandBlock(S, getSinglePredecessor(S, b), seen \cup {b})

\* The frontend nodes of block b.
nodesOf(S, b) == SeqToSet(origNodes(S, b))

\* The position of the last node of block P that strongly overwrites byte b
\* of t (0: none).
lastOverwriteIn(S, P, t, b) ==
    LET ps == {posInBlock(S, n) : n \in {m \in nodesOf(S, P) :
                                             overwritesByte(S, m, t, b)}}
    IN  IF ps = {} THEN 0 ELSE CHOOSE k \in ps : \A j \in ps : j <= k

\* Block P ends with byte b of t strongly overwritten: a node of P overwrites
\* it and no later node of P weakly writes it.
endsOverwritten(S, P, t, b) ==
    /\ lastOverwriteIn(S, P, t, b) # 0
    /\ \A n \in nodesOf(S, P) :
           weaklyWrites(S, n, t, b) =>
               posInBlock(S, n) < lastOverwriteIn(S, P, t, b)

\* The last overwriters, in the blocks Ps, of the bytes u reads.
lastOverwritersIn(S, Ps, u) ==
    {n \in UNION {nodesOf(S, P) : P \in Ps} :
        \E tb \in usedBytes(S, u) :
            /\ overwritesByte(S, n, tb[1], tb[2])
            /\ posInBlock(S, n) =
                   lastOverwriteIn(S, S.nodes[n].block, tb[1], tb[2])}

\* The nodes of the blocks Ps with a weak definition of unknown memory.
unknownWritersIn(S, Ps) ==
    {n \in UNION {nodesOf(S, P) : P \in Ps} :
        \E i \in 1 .. Len(S.nodes[n].defs) :
            S.nodes[n].defs[i].target = UNKNOWN_MEMORY}

\* The blocks the demand of u passes before it is joined: u's block and the
\* blocks reached from it through unique predecessors.
demandPath(S, u) == singlePredChain(S, S.nodes[u].block, {})

\* The case of the join: u only reads one known range; no node before u in
\* its block and no node of the other blocks on the demand path writes a
\* byte of it; the demand is joined at a block M with two or more
\* predecessors, each of which ends with the range strongly overwritten.
joinCase(S, u) ==
    LET M == demandBlock(S, S.nodes[u].block, {})
    IN  /\ knownUse(S, u) /\ readsOnly(S, u) /\ Len(S.nodes[u].uses) = 1
        /\ M # NULLBLOCK
        /\ Len(S.blocks[M].preds) >= 2
        /\ \A tb \in usedBytes(S, u) :
            /\ \A n \in nodesBefore(S, u) : ~writesByte(S, n, tb[1], tb[2])
            /\ \A c \in demandPath(S, u) \ {S.nodes[u].block} :
               \A n \in nodesOf(S, c) : ~writesByte(S, n, tb[1], tb[2])
            /\ \A i \in 1 .. Len(S.blocks[M].preds) :
                /\ S.blocks[M].preds[i] # NULLBLOCK
                /\ endsOverwritten(S, S.blocks[M].preds[i], tb[1], tb[2])

\* A PHI for the range u reads heads block M: it is in M's node list and
\* only PHIs precede it.
phiHeads(S, M, u) ==
    \E k \in 1 .. Len(S.blocks[M].nodes) :
        /\ isPhi(S, S.blocks[M].nodes[k])
        /\ S.nodes[S.blocks[M].nodes[k]].overwrites = S.nodes[u].uses
        /\ \A j \in 1 .. k : isPhi(S, S.blocks[M].nodes[j])

\* The predecessors of the block at which the demand of u is joined.
joinPreds(S, u) ==
    SeqToSet(S.blocks[demandBlock(S, S.nodes[u].block, {})].preds)

\* C11, as stated -- join: in the case of the join, a PHI for the range
\* heads M after GVN and the reaching definitions of u are exactly the last
\* overwriters of the range in the predecessors of M.
JoinAsStated ==
    (query.use # 0 /\ joinCase(St, query.use)) =>
        /\ phiHeads(St, demandBlock(St, nodes[query.use].block, {}), query.use)
        /\ queryRet = lastOverwritersIn(St, joinPreds(St, query.use), query.use)

\* C11, amended -- join up to unknown memory: in the case of the join, a PHI
\* for the range heads M after GVN and the reaching definitions of u are
\* exactly the last overwriters of the range in the predecessors of M
\* together with every weak definition of unknown memory in those
\* predecessors (which there precedes the last overwriters).
JoinUpToUnknown ==
    (query.use # 0 /\ joinCase(St, query.use)) =>
        /\ phiHeads(St, demandBlock(St, nodes[query.use].block, {}), query.use)
        /\ queryRet = lastOverwritersIn(St, joinPreds(St, query.use), query.use)
                \cup unknownWritersIn(St, joinPreds(St, query.use))

\* C11, its case: the demand of the queried use travelled from its block to
\* another block M, where it was joined, and the result holds overwriters of
\* two predecessors of M and a definition of unknown memory.
JoinUpToUnknownSeen ==
    /\ query.use # 0
    /\ joinCase(St, query.use)
    /\ demandBlock(St, nodes[query.use].block, {}) # nodes[query.use].block
    /\ phiHeads(St, demandBlock(St, nodes[query.use].block, {}), query.use)
    /\ unknownWritersIn(St, joinPreds(St, query.use)) # {}
    /\ \E n1 \in queryRet : \E n2 \in queryRet :
           /\ nodes[n1].block # nodes[n2].block
           /\ nodes[n1].overwrites # <<>> /\ nodes[n2].overwrites # <<>>
    /\ queryRet = lastOverwritersIn(St, joinPreds(St, query.use), query.use)
           \cup unknownWritersIn(St, joinPreds(St, query.use))

\* ----------------------------------------------------- properties, loop
\* The blocks from which control reaches block b (b excluded unless on a
\* cycle).
RECURSIVE ancestors(_, _, _)
ancestors(S, frontier, seen) ==
    LET more == UNION {SeqToSet(S.blocks[c].preds) : c \in frontier}
                    \ (seen \cup {NULLBLOCK})
    IN  IF more = {} THEN seen ELSE ancestors(S, more, seen \cup more)

\* Node n writes exactly the range ds, by an overwrite or by a weak def.
definesRange(S, n, ds) ==
    \/ S.nodes[n].overwrites = <<ds>> /\ S.nodes[n].defs = <<>>
    \/ S.nodes[n].defs = <<ds>> /\ S.nodes[n].overwrites = <<>>

\* The case of the loop: u only reads one known range and nothing before it
\* in its block H writes the range; H has the two predecessors E and L, L
\* is reached from H, and the only node of E and the only node of L define
\* the range.
loopCase(S, u) ==
    LET H == S.nodes[u].block
        P == S.blocks[H].preds
    IN  /\ knownUse(S, u) /\ readsOnly(S, u) /\ Len(S.nodes[u].uses) = 1
        /\ \A tb \in usedBytes(S, u) :
           \A n \in nodesBefore(S, u) : ~writesByte(S, n, tb[1], tb[2])
        /\ Len(P) = 2
        /\ P[1] # NULLBLOCK /\ P[2] # NULLBLOCK
        /\ P[1] # P[2] /\ P[1] # H /\ P[2] # H
        /\ H \in ancestors(S, {P[2]}, {})
        /\ H \notin ancestors(S, {P[1]}, {})
        /\ \A i \in 1 .. 2 :
            /\ Len(origNodes(S, P[i])) = 1
            /\ definesRange(S, origNodes(S, P[i])[1], S.nodes[u].uses[1])

\* The nodes e and l of the case of the loop.
loopWriters(S, u) ==
    {origNodes(S, S.blocks[S.nodes[u].block].preds[i])[1] : i \in 1 .. 2}

\* The PHIs of u's block that summarize the range u reads.
headerPhis(S, u) ==
    {p \in SeqToSet(S._phis) :
        /\ S.nodes[p].block = S.nodes[u].block
        /\ S.nodes[p].overwrites = S.nodes[u].uses}

\* C12, as stated -- loop back-edge: in the case of the loop, GVN ends with
\* a PHI for the range in H whose defuse set is exactly {e, l}, and the
\* reaching definitions of u are {e, l}.
LoopAsStated ==
    (query.use # 0 /\ loopCase(St, query.use)) =>
        /\ \E p \in headerPhis(St, query.use) :
               nodes[p].defuse = loopWriters(St, query.use)
        /\ queryRet = loopWriters(St, query.use)

\* C12, amended -- loop back-edge: in the case of the loop, GVN ends with a
\* PHI for the range in H; the frontend nodes in its defuse set are exactly
\* e and l, the defuse set is exactly {e, l} when both strongly overwrite the
\* range (for a weak def it also holds the PHI LVN created for that def in
\* its block), and the reaching definitions of u are {e, l}.
LoopResolved ==
    (query.use # 0 /\ loopCase(St, query.use)) =>
        /\ \E p \in headerPhis(St, query.use) :
            /\ nodes[p].defuse \cap frontendNodes(St)
                   = loopWriters(St, query.use)
            /\ (\A n \in loopWriters(St, query.use) :
                    nodes[n].overwrites # <<>>)
                   => nodes[p].defuse = loopWriters(St, query.use)
        /\ queryRet = loopWriters(St, query.use)

\* C12, its case: the loop was analysed and queried with e a strong
\* overwrite and l a weak def, and the PHI of H holds a PHI of L.
LoopResolvedSeen ==
    /\ query.use # 0
    /\ loopCase(St, query.use)
    /\ queryRet = loopWriters(St, query.use)
    /\ \E p \in headerPhis(St, query.use) :
       \E q \in nodes[p].defuse :
           /\ isPhi(St, q)
           /\ nodes[q].block = blocks[nodes[query.use].block].preds[2]
           /\ p \in nodes[q].defuse

\* -------------------------------------------- properties, unknown writes
\* LVN is about to process the weak updates of a node whose only def-site is
\* unknown memory.
atUnknownWrite ==
    /\ pc = "lvn"
    /\ cur.stage = "defs"
    /\ nodes[curNode].defs = <<UnknownMemorySite>>

\* The step of LVN over such a node nU: every byte the block tracks keeps
\* its definitions and gains nU, the bytes of unknown memory gain nU, no
\* untracked byte of a named target becomes tracked, and no PHI and no
\* defuse link is created.
unknownWriteStep ==
    atUnknownWrite =>
        /\ \A t \in AllTargets : \A b \in Bytes :
            LET old == blocks[cur.block].definitions[t][b]
                new == blocks'[cur.block].definitions[t][b]
            IN  /\ old \subseteq new
                /\ new \subseteq old \cup {curNode}
                /\ (old # {} \/ t = UNKNOWN_MEMORY) <=> curNode \in new
        /\ _phis' = _phis
        /\ nodes' = nodes

\* The nodes right before u in its block are n1, whose only def-site is an
\* overwrite of the range u reads, and then nU, whose only def-site is a weak
\* definition of unknown memory.
taintCase(S, u) ==
    LET orig == origNodes(S, S.nodes[u].block)
        k    == posInBlock(S, u)
    IN  /\ knownUse(S, u) /\ readsOnly(S, u) /\ Len(S.nodes[u].uses) = 1
        /\ k >= 3
        /\ S.nodes[orig[k - 2]].overwrites = S.nodes[u].uses
        /\ S.nodes[orig[k - 2]].defs = <<>>
        /\ S.nodes[orig[k - 1]].overwrites = <<>>
        /\ S.nodes[orig[k - 1]].defs = <<UnknownMemorySite>>

\* The result of a query for a reading node holds every definition of unknown
\* memory that precedes the node in its block; in the case above it is
\* exactly {n1, nU}.
unknownWritesReturned ==
    (query.use # 0 /\ knownUse(St, query.use) /\ readsOnly(St, query.use)) =>
        /\ unknownWritersBefore(St, query.use) \subseteq queryRet
        /\ taintCase(St, query.use) =>
               queryRet =
                   {origNodes(St, nodes[query.use].block)[k] :
                       k \in {posInBlock(St, query.use) - 2,
                              posInBlock(St, query.use) - 1}}

\* After GVN, every PHI holds the definitions of unknown memory of every
\* predecessor of its block.
unknownWritesDemanded ==
    pc = "done" =>
        \A phi \in SeqToSet(_phis) :
            unknownWritersIn(St, SeqToSet(blocks[nodes[phi].block].preds)
                                     \ {NULLBLOCK})
                \subseteq nodes[phi].defuse

\* C13 -- unknown write taints: a weak definition nU of unknown memory never
\* kills: LVN adds it to the definitions of every range the block tracks at
\* that moment and replaces none; it is returned for ranges read later in
\* the block (for [n1 overwrites r] [nU] [u uses r] the result is {n1, nU})
\* and for ranges demanded by successor blocks.
UnknownWriteTaints ==
    /\ [][unknownWriteStep]_vars
    /\ [](unknownWritesReturned /\ unknownWritesDemanded)

\* C13, its case: n1, nU, u in a block, u queried with the result {n1, nU},
\* and nU in the block's definitions of the range beside n1.
UnknownWriteTaintsSeen ==
    /\ query.use # 0
    /\ taintCase(St, query.use)
    /\ Cardinality(queryRet) = 2
    /\ \A tb \in usedBytes(St, query.use) :
           Cardinality(blocks[nodes[query.use].block]
                           .definitions[tb[1]][tb[2]]) = 2

\* ------------------------------------------------ properties, LVN re-run
\* C14 -- runLvn is idempotent: a second run of LVN before GVN leaves every
\* node's defuse set, every block's definitions map and node list, and the
\* PHI registry as the first run left them.
LvnIdempotent ==
    [][pc' = "lvn_again" =>
          /\ Len(nodes') = Len(nodes)
          /\ \A n \in 1 .. Len(nodes) : nodes'[n].defuse = nodes[n].defuse
          /\ blocks' = blocks
          /\ _phis' = _phis]_vars

\* C14, narrowed to the runs in which no assertion of performLvn fires.
LvnIdempotentUnlessAssert ==
    [][(pc' = "lvn_again" /\ ~assertFailed') =>
          /\ Len(nodes') = Len(nodes)
          /\ \A n \in 1 .. Len(nodes) : nodes'[n].defuse = nodes[n].defuse
          /\ blocks' = blocks
          /\ _phis' = _phis]_vars

QueryIdempotentFlattened ==
    /\ query.calls = 2
    /\ knownUse(St, query.use)
    /\ queryRet # {}
    /\ \E p \in nodes[query.use].defuse : isPhi(St, p)

\* --------------------------------------------- properties, query frame
\* C16 -- queries are read-only: a call of getReachingDefinitions, the
\* fallback findAllReachingDefinitions included, creates no PHI and leaves
\* the PHI registry, every block's definitions map and node list, and every
\* node's defuse set unchanged.
QueryReadOnly ==
    [][(pc = "done" /\ query'.use # 0) =>
          /\ nodes' = nodes
          /\ blocks' = blocks
          /\ _phis' = _phis]_vars

\* C16, its case: the fallback was queried on an analysed graph that holds
\* PHIs, and its local map merged the definitions of two blocks or more.
QueryReadOnlySeen ==
    /\ query.calls = 1
    /\ usesUnknown(St, query.use)
    /\ _phis # <<>>
    /\ Len(findAllReachingDefinitions(St, query.use).merged) >= 2

\* --------------------------------------------- properties, PHI placement
\* The node list of block b: PHIs first, the newest PHI at the head, then
\* the nodes of the frontend in their original order; every node of the
\* list points back to b and is listed once.
wellPlaced(S, b) ==
    LET list == S.blocks[b].nodes
    IN  /\ \A i, j \in 1 .. Len(list) :
               i < j =>
                   /\ isPhi(S, list[j]) => isPhi(S, list[i]) /\ list[i] > list[j]
                   /\ ~isPhi(S, list[i]) => list[i] < list[j]
        /\ \A i \in 1 .. Len(list) : S.nodes[list[i]].block = b
        /\ SeqToSet(list) = {n \in 1 .. Len(S.nodes) : S.nodes[n].block = b}

\* C17 -- PHI placement: in every state of LVN and GVN each block's node
\* list has all of its PHIs before all of its other nodes, a newly created
\* PHI (the one with the highest id) is the first node of its block, every
\* registered PHI is in the list of the block it was created for, and the
\* original nodes keep their relative order.
PhiPlacement ==
    /\ \A b \in 1 .. Len(blocks) : wellPlaced(St, b)
    /\ \A i \in 1 .. Len(_phis) :
           /\ isPhi(St, _phis[i])
           /\ \E k \in 1 .. Len(blocks[nodes[_phis[i]].block].nodes) :
                  blocks[nodes[_phis[i]].block].nodes[k] = _phis[i]
    /\ \A n \in 1 .. Len(nodes) : isPhi(St, n) => n \in SeqToSet(_phis)

\* C17, its case: after GVN some block holds two PHIs or more, one of them
\* resolved by GVN, in front of two original nodes or more.
PhiPlacementSeen ==
    /\ pc = "done"
    /\ \E b \in 1 .. Len(blocks) :
           /\ Len(blocks[b].nodes) - Len(origNodes(St, b)) >= 2
           /\ Len(origNodes(St, b)) >= 2
           /\ \E k \in 1 .. Len(blocks[b].nodes) :
                  /\ isPhi(St, blocks[b].nodes[k])
                  /\ nodes[blocks[b].nodes[k]].defuse # {}

\* ------------------------------------------------- properties, CFG frame
\* The step changes the graph at most by new PHI nodes at block heads: the
\* blocks and their predecessor lists (the successors are derived from
\* them) are the same, every node that exists keeps its type, block,
\* overwrites, defs and uses, the nodes that appear are PHIs, and every
\* node list is its former self behind the new PHIs of that block.
cfgFrameStep ==
    /\ Len(blocks') = Len(blocks)
    /\ \A b \in 1 .. Len(blocks) : blocks'[b].preds = blocks[b].preds
    /\ Len(nodes') >= Len(nodes)
    /\ \A n \in 1 .. Len(nodes) :
           /\ nodes'[n].type = nodes[n].type
           /\ nodes'[n].block = nodes[n].block
           /\ nodes'[n].overwrites = nodes[n].overwrites
           /\ nodes'[n].defs = nodes[n].defs
           /\ nodes'[n].uses = nodes[n].uses
    /\ \A n \in (Len(nodes) + 1) .. Len(nodes') : nodes'[n].type = "PHI"
    /\ \A b \in 1 .. Len(blocks) :
           LET old   == blocks[b].nodes
               new   == blocks'[b].nodes
               added == Len(new) - Len(old)
           IN  /\ added >= 0
               /\ SubSeq(new, added + 1, Len(new)) = old
               /\ \A k \in 1 .. added : new[k] > Len(nodes)

PhiWellFormed ==
    \A i \in 1 .. Len(_phis) :
        LET phi == nodes[_phis[i]]
        IN  /\ Len(phi.overwrites) = 1
            /\ phi.overwrites[1].offset # UNKNOWN
            /\ phi.overwrites[1].target # UNKNOWN_MEMORY
            /\ phi.defs = <<>>
            /\ phi.uses = <<>>

\* C19 but for the target: one overwrite with a known offset, no defs, no
\* uses.
PhiWellFormedButTarget ==
    \A i \in 1 .. Len(_phis) :
        LET phi == nodes[_phis[i]]
        IN  /\ Len(phi.overwrites) = 1
            /\ phi.overwrites[1].offset # UNKNOWN
            /\ phi.defs = <<>>
            /\ phi.uses = <<>>

\* ---------------------------------------------- properties, dead code
\* The def-sites a lookup may be called with.
AllSites == KnownSites \cup {UnknownOffsetSite, UnknownMemorySite}

\* Block b has a null predecessor (dead code the builder made no block for).
hasDeadPred(S, b) == NULLBLOCK \in SeqToSet(S.blocks[b].preds)

\* findDefinitions on a null block returns the empty list and the state as
\* it was; the fallback walk on a null block returns with foundDefs and
\* visitedBlocks as they were.
nullBlockIsSkipped ==
    /\ \A ds \in AllSites :
           LET r == findDefinitions(St, NULLBLOCK, ds, 1)
           IN  r.defs = {} /\ r.S = St /\ ~r.diverged
    /\ \A b \in 1 .. Len(blocks) :
           LET acc == [foundDefs |-> definedNodes(blocks[b].definitions),
                       visitedBlocks |-> {b}, merged |-> <<b>>,
                       diverged |-> FALSE]
           IN  findAllReachingDefinitionsRec(St, blocks[b].definitions,
                                             NULLBLOCK, acc, 1) = acc

\* After GVN, a PHI of a block with a null predecessor holds what the other
\* predecessors define for its range and for unknown memory.
deadPredPassed ==
    pc = "done" =>
        \A i \in 1 .. Len(_phis) :
            LET phi == _phis[i]
                b   == nodes[phi].block
            IN  hasDeadPred(St, b) =>
                    \A P \in SeqToSet(blocks[b].preds) \ {NULLBLOCK} :
                        get(blocks[P].definitions, nodes[phi].overwrites[1])
                            \cup get(blocks[P].definitions,
                                     DefSite(UNKNOWN_MEMORY, 0, UNKNOWN))
                            \subseteq nodes[phi].defuse

\* A fallback query in a block with a null predecessor returns, and returns
\* the definitions of unknown memory of the other predecessors.
deadPredWalked ==
    (query.use # 0 /\ usesUnknown(St, query.use)
       /\ hasDeadPred(St, nodes[query.use].block)) =>
        /\ ~query.diverged
        /\ unknownWritersIn(St, SeqToSet(blocks[nodes[query.use].block].preds)
                                    \ {NULLBLOCK})
               \subseteq queryRet

\* C20 -- dead-code skip: findDefinitions called with a null block returns
\* the empty list and changes no state, and GVN continues with the remaining
\* predecessors; the fallback predecessor walk returns at once on a null
\* block.
DeadCodeSkip == nullBlockIsSkipped /\ deadPredPassed /\ deadPredWalked

\* C20, its case: a block whose first predecessor is null and whose second
\* is a block with a writer; GVN filled a PHI of the block from the second
\* predecessor, and a fallback query in the block returned that writer.
DeadCodeSkipSeen ==
    /\ query.use # 0
    /\ usesUnknown(St, query.use)
    /\ LET b == nodes[query.use].block
       IN  /\ Len(blocks[b].preds) = 2
           /\ blocks[b].preds[1] = NULLBLOCK
           /\ \E i \in 1 .. Len(_phis) :
                  /\ nodes[_phis[i]].block = b
                  /\ \E n \in nodes[_phis[i]].defuse \cap queryRet :
                         nodes[n].block = blocks[b].preds[2]

\* ------------------------------------------- properties, fatal preconditions
\* The def-site fails the assertions of performLvn, lines 118-119.
fatalSite(ds) == ds.offset = UNKNOWN \/ ds.target = UNKNOWN_MEMORY

\* The overwrites of node n that precede its first fatal one.
RECURSIVE beforeFatal(_)
beforeFatal(sites) ==
    IF sites = <<>> \/ fatalSite(Head(sites)) THEN <<>>
    ELSE <<Head(sites)>> \o beforeFatal(Tail(sites))

\* LVN is at the strong updates of a node with a fatal overwrite: the step
\* aborts the analysis, and the block's map has received the overwrites
\* before the fatal one and nothing else.
abortsBeforeUpdate ==
    (pc = "lvn" /\ cur.stage = "overwrites"
       /\ \E i \in 1 .. Len(nodes[curNode].overwrites) :
              fatalSite(nodes[curNode].overwrites[i])) =>
        /\ pc' = "aborted"
        /\ assertFailed'
        /\ nodes' = nodes /\ _phis' = _phis
        /\ blocks' = [blocks EXCEPT ![cur.block].definitions =
                         replayDefSites(@, curNode,
                                        beforeFatal(nodes[curNode].overwrites),
                                        TRUE, 1)]

\* No map of the completed analysis holds a node under a target or an
\* offset that the node strongly updates as unknown.
noFatalUpdateHeld ==
    pc = "done" =>
        \A b \in 1 .. Len(blocks) : \A n \in 1 .. Len(nodes) :
            \A i \in 1 .. Len(nodes[n].overwrites) :
                LET ds == nodes[n].overwrites[i]
                IN  /\ ds.offset # UNKNOWN
                    /\ ds.target = UNKNOWN_MEMORY =>
                           \A y \in Bytes :
                               n \notin blocks[b].definitions[UNKNOWN_MEMORY][y]

\* The first half of C21 alone.
AbortsBeforeFatalUpdate == [][abortsBeforeUpdate]_vars

\* C21 -- fatal preconditions: when LVN reaches a node whose overwrites hold
\* a def-site with unknown offset or with target unknown memory, the
\* analysis aborts at that node before the block's map receives that strong
\* update; no map of a completed analysis holds a strong update to an
\* unknown offset or to unknown memory.
FatalPreconditions == [][abortsBeforeUpdate]_vars /\ []noFatalUpdateHeld

\* ============================================================ IntervalMap
\* src/analysis/ReachingDefinitions/Srg/IntervalMap.h.  Offset
\* (analysis/Offset.h) and intervalsOverlap (RDMap.h) are not part of the
\* analysed sources and follow sections 3 and 4.1 of the specification.

\* The offsets of the intervals tried: 0 .. MaxByte.
MaxByte == 3

\* The number of add calls tried on one map.
MaxAdds == 3

\* Offset::operator+ and operator-: arithmetic with UNKNOWN yields UNKNOWN.
\* A difference below zero is taken as UNKNOWN; the only place that could
\* compute one (killOverlapping) never reads the result.
offPlus(a, b) == IF a = UNKNOWN \/ b = UNKNOWN THEN UNKNOWN ELSE a + b
offMinus(a, b) ==
    IF a = UNKNOWN \/ b = UNKNOWN \/ a < b THEN UNKNOWN ELSE a - b

\* Offset::operator<=: UNKNOWN is the greatest offset.
offLeq(a, b) == b = UNKNOWN \/ (a # UNKNOWN /\ a <= b)

\* ---------------------------------------------------------------- Interval
Interval(start, len) == [start |-> start, len |-> len]

isUnknown(i) == i.start = UNKNOWN \/ i.len = 0

\* intervalsOverlap on [a, a + alen) and [b, b + blen).
intervalsOverlap(a, alen, b, blen) == a < b + blen /\ b < a + alen

overlaps(i, other) ==
    IF isUnknown(i) \/ isUnknown(other) THEN FALSE
    ELSE intervalsOverlap(i.start, i.len, other.start, other.len)

isSubsetOf(i, other) ==
    /\ offLeq(other.start, i.start)
    /\ offLeq(offPlus(i.start, i.len), offPlus(other.start, other.len))

\* Interval::unite: whether i was united with other, and i afterwards.
unite(i, other) ==
    IF isUnknown(i) \/ isUnknown(other) THEN [ok |-> FALSE, interval |-> i]
    ELSE IF \/ overlaps(i, other)
            \/ i.start + i.len = other.start
            \/ other.start + other.len = i.start
         THEN LET a == IF i.start < other.start THEN i.start ELSE other.start
                  b == IF i.start + i.len > other.start + other.len
                       THEN i.start + i.len ELSE other.start + other.len
              IN  [ok |-> TRUE, interval |-> Interval(a, b - a)]
         ELSE [ok |-> FALSE, interval |-> i]

\* ------------------------------------------------------ DisjointIntervalSet
\* A sequence s without its k-th element (vector::erase).
erase(s, k) == SubSeq(s, 1, k - 1) \o SubSeq(s, k + 1, Len(s))

\* An insert that stops looking once the interval was united with one stored
\* interval.
RECURSIVE insertFirstOnly(_, _, _)
insertFirstOnly(intervals, interval, k) ==
    IF k > Len(intervals) THEN Append(intervals, interval)
    ELSE IF unite(interval, intervals[k]).ok
         THEN Append(erase(intervals, k),
                     unite(interval, intervals[k]).interval)
         ELSE insertFirstOnly(intervals, interval, k + 1)

\* DisjointIntervalSet::insert, the loop of lines 85-91 from position k on,
\* then the push_back of line 93.
RECURSIVE insertFrom(_, _, _)
insertFrom(intervals, interval, k) ==
    IF k > Len(intervals) THEN Append(intervals, interval)
    ELSE IF unite(interval, intervals[k]).ok
         THEN insertFrom(erase(intervals, k),
                         unite(interval, intervals[k]).interval, k)
         ELSE insertFrom(intervals, interval, k + 1)

insert(intervals, interval) == insertFrom(intervals, interval, 1)

\* DisjointIntervalSet(const C& c): the elements of c inserted in order.
RECURSIVE DisjointIntervalSet(_)
DisjointIntervalSet(c) ==
    IF c = <<>> THEN <<>>
    ELSE insert(DisjointIntervalSet(SubSeq(c, 1, Len(c) - 1)), c[Len(c)])

\* -------------------------------------------------------------- IntervalMap
\* A bucket: std::pair<Interval, V>.
Bucket(interval, v) == [interval |-> interval, v |-> v]

isCovered(interval, intervals) ==
    IF isUnknown(interval) THEN TRUE
    ELSE \E k \in 1 .. Len(intervals) :
             overlaps(interval, intervals[k]) /\ isSubsetOf(interval, intervals[k])

\* The two remainders killOverlapping computes for a bucket (lines 181-189).
remainders(interval, v, ki) ==
    << Bucket(Interval(interval.start, offMinus(ki.start, interval.start)), v),
       Bucket(Interval(offPlus(ki.start, ki.len),
                       offMinus(offPlus(interval.start, interval.len),
                                offPlus(ki.start, ki.len))), v) >>

\* killOverlapping, the loop of lines 175-195 from position k on: the
\* buckets left and the local vector to_add.
RECURSIVE killFrom(_, _, _, _)
killFrom(buckets, to_add, ki, k) ==
    IF k > Len(buckets) THEN [buckets |-> buckets, to_add |-> to_add]
    ELSE IF overlaps(buckets[k].interval, ki)
         THEN killFrom(erase(buckets, k),
                       IF ~isSubsetOf(ki, buckets[k].interval)
                       THEN to_add \o remainders(buckets[k].interval,
                                                 buckets[k].v, ki)
                       ELSE to_add,
                       ki, k)
         ELSE killFrom(buckets, to_add, ki, k + 1)

\* killOverlapping(ki): the buckets of the map after the call.  to_add is a
\* local of the call; nothing moves it into buckets before it returns.
killOverlapping(buckets, ki) == killFrom(buckets, <<>>, ki, 1).buckets

\* IntervalMap::add.
addBucket(buckets, interval, value) == Append(buckets, Bucket(interval, value))

\* collect, the loop of lines 222-228 from bucket k down to the first.
RECURSIVE collectFrom(_, _, _, _)
collected(acc, interval, bucket, intervals) ==
    [result |-> Append(acc.result, bucket.v), intervals |-> intervals,
     is_covered |-> isCovered(interval, intervals)]

collectFrom(buckets, interval, acc, k) ==
    IF k = 0 THEN acc
    ELSE IF \/ isUnknown(interval)
            \/ isUnknown(buckets[k].interval)
            \/ /\ overlaps(buckets[k].interval, interval)
               /\ ~isCovered(buckets[k].interval, acc.intervals)
         THEN collectFrom(buckets, interval,
                          collected(acc, interval, buckets[k],
                                    insert(acc.intervals, buckets[k].interval)),
                          k - 1)
         ELSE collectFrom(buckets, interval, acc, k - 1)

\* collect(interval, covered): the tuple of values, key intervals and
\* is_covered.
collect(buckets, interval, covered) ==
    collectFrom(buckets, interval,
                [result |-> <<>>, intervals |-> DisjointIntervalSet(covered),
                 is_covered |-> FALSE],
                Len(buckets))

\* collectAll(interval), the loop of lines 241-245 from bucket k down.
RECURSIVE collectAllFrom(_, _, _)
collectAllFrom(buckets, interval, k) ==
    IF k = 0 THEN <<>>
    ELSE IF \/ isUnknown(interval)
            \/ isUnknown(buckets[k].interval)
            \/ overlaps(buckets[k].interval, interval)
         THEN <<buckets[k].v>> \o collectAllFrom(buckets, interval, k - 1)
         ELSE collectAllFrom(buckets, interval, k - 1)

collectAll(buckets, interval) == collectAllFrom(buckets, interval, Len(buckets))

\* ------------------------------------------------------- IntervalMap, inputs
\* The intervals inside [0, MaxByte), and unknown ones: an unknown start, a
\* length of zero.
KnownIntervals ==
    {i \in [start : 0 .. (MaxByte - 1), len : 1 .. MaxByte] :
        i.start + i.len <= MaxByte}

UnknownIntervals == {Interval(UNKNOWN, 1), Interval(0, 0)}

Intervals == KnownIntervals \cup UnknownIntervals

\* The covered arguments tried: none, or one known interval.
CoveredArgs == {<<>>} \cup {<<i>> : i \in KnownIntervals}

\* ------------------------------------------------------ IntervalMap, actions
\* No analysis runs beside the map.
InitIM ==
    /\ nodes = <<>> /\ blocks = <<>> /\ _phis = <<>>
    /\ assertFailed = FALSE
    /\ pc = "map"
    /\ cur = [block |-> 0, idx |-> 0, stage |-> "overwrites"]
    /\ phis = {}
    /\ query = NoQuery
    /\ im = NoIntervalMap
    /\ dis = NoIntervals
    /\ du = NoDefUse
    /\ popped = NonePopped

analysisIdle ==
    UNCHANGED <<nodes, blocks, _phis, assertFailed, pc, cur, phis, query,
                dis, du, popped>>

\* The map is between calls that change it; a collect or a collectAll is not
\* followed further (both are const).
mutable == pc = "map" /\ im.call.name \notin {"collect", "collectAll"}

\* add(interval, value); the values added to one map are told apart.
Add ==
    /\ mutable /\ im.added < MaxAdds
    /\ \E interval \in Intervals :
           im' = [buckets |-> addBucket(im.buckets, interval, im.added + 1),
                  added |-> im.added + 1,
                  call |-> [name |-> "add"]]
    /\ analysisIdle

\* killOverlapping(ki).
KillOverlapping ==
    /\ mutable
    /\ \E ki \in Intervals :
           im' = [im EXCEPT !.buckets = killOverlapping(@, ki),
                            !.call = [name |-> "killOverlapping", ki |-> ki]]
    /\ analysisIdle

\* The interval killed by the call before this one, if that was a
\* killOverlapping: a sequence of one interval or of none.
lastKilled ==
    IF im.call.name = "killOverlapping" THEN <<im.call.ki>> ELSE <<>>

\* collect(interval, covered) returned ret.
Collected(interval, covered, ret) ==
    im' = [im EXCEPT !.call = [name |-> "collect", interval |-> interval,
                               covered |-> covered, killed |-> lastKilled,
                               result |-> ret.result,
                               intervals |-> ret.intervals,
                               is_covered |-> ret.is_covered]]

Collect ==
    /\ mutable
    /\ \E interval \in Intervals : \E covered \in CoveredArgs :
           Collected(interval, covered, collect(im.buckets, interval, covered))
    /\ analysisIdle

\* collectAll(interval).
CollectAll ==
    /\ mutable
    /\ \E interval \in Intervals :
           im' = [im EXCEPT !.call = [name |-> "collectAll",
                                      interval |-> interval,
                                      killed |-> lastKilled,
                                      result |-> collectAll(im.buckets,
                                                            interval)]]
    /\ analysisIdle

NextIM ==
    \/ Add
    \/ KillOverlapping
    \/ Collect
    \/ CollectAll

SpecIM == InitIM /\ [][NextIM]_vars

\* ------------------------------------------ DisjointIntervalSet, actions
\* The ends of the intervals inserted into the set: 0 .. MaxEnd.
MaxEnd == 5

\* The number of insert calls tried on one set.
MaxInserts == 3

\* The intervals inside [0, MaxEnd), and the unknown ones.
InsertedIntervals ==
    {i \in [start : 0 .. (MaxEnd - 1), len : 1 .. MaxEnd] :
        i.start + i.len <= MaxEnd} \cup UnknownIntervals

\* A default-constructed set; neither an analysis nor a map beside it.
InitSet ==
    /\ nodes = <<>> /\ blocks = <<>> /\ _phis = <<>>
    /\ assertFailed = FALSE
    /\ pc = "set"
    /\ cur = [block |-> 0, idx |-> 0, stage |-> "overwrites"]
    /\ phis = {}
    /\ query = NoQuery
    /\ im = NoIntervalMap
    /\ dis = NoIntervals
    /\ du = NoDefUse
    /\ popped = NonePopped

\* insert(interval).
Insert ==
    /\ pc = "set" /\ Len(dis.inserted) < MaxInserts
    /\ \E interval \in InsertedIntervals :
           dis' = [intervals |-> insert(dis.intervals, interval),
                   inserted |-> Append(dis.inserted, interval)]
    /\ UNCHANGED <<nodes, blocks, _phis, assertFailed, pc, cur, phis, query,
                   im, du, popped>>

NextSet == Insert

SpecSet == InitSet /\ [][NextSet]_vars

\* ====================================================== llvm/DefUse.cpp
\* The reaching-definitions dataflow of LLVMDefUseAnalysis.  LLVMNode,
\* LLVMBBlock and the points-to sets are built outside the analysed sources;
\* the model takes from them what runOnNode reads: whether a node is a
\* store, the points-to set of its pointer operand, its predecessor in the
\* block, its block, and the predecessors and the last node of a block.

\* The memory locations (Pointer) stores write to.
Pointers == {"p", "q"}

\* A DefMap maps every pointer to the nodes defining it; a pointer without an
\* entry and one with an empty entry are the same map.
EmptyDefMap == [ptr \in Pointers |-> {}]

\* DefMap::merge(oth, without); same: this == oth.  A null without skips
\* nothing and is the empty set here.
DefMap_merge(df, oth, without, same) ==
    IF same THEN [changed |-> FALSE, df |-> df]
    ELSE LET merged == [ptr \in Pointers |->
                           IF ptr \in without THEN df[ptr]
                           ELSE df[ptr] \cup oth[ptr]]
         IN  [changed |-> merged # df, df |-> merged]

\* DefMap::add(p, n).
DefMap_add(df, p, n) ==
    [changed |-> n \notin df[p], df |-> [df EXCEPT ![p] = @ \cup {n}]]

\* DefMap::update(p, n).
DefMap_update(df, p, n) ==
    [changed |-> n \notin df[p] \/ Cardinality(df[p]) > 1,
     df |-> [df EXCEPT ![p] = {n}]]

\* The weak update of handleStoreInst: add(ptr, storeNode) for every ptr of S.
weakUpdate(df, S, storeNode) ==
    [changed |-> \E ptr \in S : storeNode \notin df[ptr],
     df |-> [ptr \in Pointers |->
                IF ptr \in S THEN df[ptr] \cup {storeNode} ELSE df[ptr]]]

\* handleStoreInst(storeNode, df, strong_update) on the graph G; S is the
\* points-to set of the pointer operand.
handleStoreInst(G, storeNode, df, strong_update) ==
    LET S == G.nodes[storeNode].pointsTo
    IN  IF Cardinality(S) = 1
        THEN LET r == DefMap_update(df, CHOOSE ptr \in S : TRUE, storeNode)
             IN  [changed |-> r.changed, df |-> r.df, strong_update |-> S]
        ELSE LET r == weakUpdate(df, S, storeNode)
             IN  [changed |-> r.changed, df |-> r.df,
                  strong_update |-> strong_update]

\* node->getPredcessor(): the node before it in its block, 0 for none.
getPredcessor(G, node) ==
    LET ns == G.blocks[G.nodes[node].block].nodes
        k == CHOOSE i \in 1 .. Len(ns) : ns[i] = node
    IN  IF k = 1 THEN 0 ELSE ns[k - 1]

\* predBB->getLastNode().
getLastNode(G, b) == G.blocks[b].nodes[Len(G.blocks[b].nodes)]

\* runOnNode, the branch of a predecessor in the same block (lines 134-139).
runOnPred(G, node, pred, df) ==
    LET h == IF G.nodes[pred].store
             THEN handleStoreInst(G, pred, df, {})
             ELSE [changed |-> FALSE, df |-> df, strong_update |-> {}]
        m == DefMap_merge(h.df, G.defmaps[pred], h.strong_update, pred = node)
    IN  [changed |-> h.changed \/ m.changed, df |-> m.df]

\* runOnNode, one turn of the loop over the predecessor blocks (lines
\* 144-152): st carries changed, df and strong_update.  The result of merge
\* is not added to changed.
runOnPredBB(G, node, predBB, st) ==
    LET pred == getLastNode(G, predBB)
        h == IF G.nodes[pred].store
             THEN handleStoreInst(G, pred, st.df, st.strong_update)
             ELSE [changed |-> FALSE, df |-> st.df,
                   strong_update |-> st.strong_update]
        m == DefMap_merge(h.df, IF pred = node THEN h.df ELSE G.defmaps[pred], {},
                   pred = node)
    IN  [changed |-> st.changed \/ h.changed, df |-> m.df,
         strong_update |-> h.strong_update]

\* The loop of lines 144-152 over the predecessor blocks from position k on.
RECURSIVE runOnPredBBs(_, _, _, _, _)
runOnPredBBs(G, node, preds, k, st) ==
    IF k > Len(preds) THEN st
    ELSE runOnPredBBs(G, node, preds, k + 1,
                      runOnPredBB(G, node, preds[k], st))

\* LLVMDefUseAnalysis::runOnNode(node): what it returns and the DefMap of
\* the node afterwards.
runOnNode(G, node) ==
    LET pred == getPredcessor(G, node)
        df == G.defmaps[node]
    IN  IF pred # 0 THEN runOnPred(G, node, pred, df)
        ELSE LET st == runOnPredBBs(G, node,
                                    G.blocks[G.nodes[node].block].preds, 1,
                                    [changed |-> FALSE, df |-> df,
                                     strong_update |-> {}])
             IN  [changed |-> st.changed, df |-> st.df]

\* ------------------------------------------------------- DefUse, inputs
\* What a node is: no store, a store through a pointer with one target
\* (strong update), a store through a pointer with two targets (weak update).
NodeKinds ==
    {[store |-> FALSE, pointsTo |-> {}],
     [store |-> TRUE, pointsTo |-> {"p"}],
     [store |-> TRUE, pointsTo |-> {"p", "q"}]}

\* The control flow graphs tried: a block of two nodes and a block of one
\* joining in a third, and an entry block followed by a block that loops to
\* itself.
DefUseLayouts ==
    {<<[nodes |-> <<1, 2>>, preds |-> <<>>],
       [nodes |-> <<3>>, preds |-> <<>>],
       [nodes |-> <<4>>, preds |-> <<1, 2>>]>>,
     <<[nodes |-> <<1>>, preds |-> <<>>],
       [nodes |-> <<2, 3>>, preds |-> <<1, 2>>]>>}

\* The number of nodes of a layout.
nodeCount(layout) ==
    Cardinality(UNION {SeqToSet(layout[b].nodes) : b \in 1 .. Len(layout)})

\* The dependence graph of a layout whose nodes are of the given kinds; every
\* node starts without a DefMap, which getDefMap creates empty.
buildDefUse(layout, kinds) ==
    [nodes |-> [n \in 1 .. nodeCount(layout) |->
                   [store |-> kinds[n].store, pointsTo |-> kinds[n].pointsTo,
                    block |-> CHOOSE b \in 1 .. Len(layout) :
                                  n \in SeqToSet(layout[b].nodes)]],
     blocks |-> layout,
     defmaps |-> [n \in 1 .. nodeCount(layout) |-> EmptyDefMap],
     call |-> [node |-> 0]]

\* ------------------------------------------------------- DefUse, actions
InitDefUse ==
    /\ nodes = <<>> /\ blocks = <<>> /\ _phis = <<>>
    /\ assertFailed = FALSE
    /\ pc = "defuse"
    /\ cur = [block |-> 0, idx |-> 0, stage |-> "overwrites"]
    /\ phis = {}
    /\ query = NoQuery
    /\ im = NoIntervalMap
    /\ dis = NoIntervals
    /\ \E layout \in DefUseLayouts :
           \E kinds \in [1 .. nodeCount(layout) -> NodeKinds] :
               du = buildDefUse(layout, kinds)
    /\ popped = NonePopped

defUseOnly ==
    UNCHANGED <<nodes, blocks, _phis, assertFailed, cur, phis, query, im, dis,
                popped>>

\* runOnNode(node) returned r.  The call is recorded with the DefMap of the
\* node before it, whether the call before was for the same node, and the
\* parity of the number of calls.
Ran(node, r) ==
    du' = [du EXCEPT !.defmaps[node] = r.df,
                     !.call = [node |-> node, ret |-> r.changed,
                               before |-> du.defmaps[node],
                               again |-> du.call.node = node,
                               odd |-> IF du.call.node = 0 THEN TRUE
                                       ELSE ~du.call.odd]]

\* The dataflow runs on some node.
RunOnNode ==
    /\ pc = "defuse"
    /\ \E node \in 1 .. Len(du.nodes) : Ran(node, runOnNode(du, node))
    /\ UNCHANGED pc
    /\ defUseOnly

NextDefUse == RunOnNode

SpecDefUse == InitDefUse /\ [][NextDefUse]_vars

\* From now on the dataflow runs on one node only: the DefMaps of its
\* predecessors no longer change.
Settle ==
    /\ pc = "defuse"
    /\ \E node \in 1 .. Len(du.nodes) : Ran(node, runOnNode(du, node))
    /\ pc' = "repeat"
    /\ defUseOnly

\* runOnNode is repeated on the node as long as it returns true.
Repeat ==
    /\ pc = "repeat" /\ du.call.ret
    /\ Ran(du.call.node, runOnNode(du, du.call.node))
    /\ UNCHANGED pc
    /\ defUseOnly

NextRepeat ==
    \/ RunOnNode
    \/ Settle
    \/ Repeat

\* The driver keeps calling runOnNode while it returns true.
SpecRepeat == InitDefUse /\ [][NextRepeat]_vars /\ WF_vars(Repeat)

\* ------------------------------------------------- IntervalMap, properties
\* A query (collect or collectAll) has returned.
queried == im.call.name \in {"collect", "collectAll"}

\* The query came right after killOverlapping(ki), with nothing in between.
queriedAfterKill == queried /\ im.call.killed # <<>>

\* i is ki or a sub-interval of ki.
subInterval(i, ki) ==
    \/ i = ki
    \/ /\ ~isUnknown(i) /\ ~isUnknown(ki)
       /\ ki.start <= i.start /\ i.start + i.len <= ki.start + ki.len

\* C22: after killOverlapping(ki), collect and collectAll with ki or with a
\* sub-interval of ki return no values, whatever the map held before.
KillPostcondition ==
    (queriedAfterKill /\ subInterval(im.call.interval, im.call.killed[1]))
        => im.call.result = <<>>

\* C22, the part that holds: the same for a known ki, on a map none of whose
\* buckets has an unknown interval.
noUnknownBucket ==
    \A k \in 1 .. Len(im.buckets) : ~isUnknown(im.buckets[k].interval)

KillPostconditionKnown ==
    (/\ queriedAfterKill /\ subInterval(im.call.interval, im.call.killed[1])
     /\ ~isUnknown(im.call.killed[1]) /\ noUnknownBucket)
        => im.call.result = <<>>

\* Byte x lies in the known interval i.
inInterval(x, i) == ~isUnknown(i) /\ i.start <= x /\ x < i.start + i.len

\* Some bucket maps byte x to value v.
mapsByte(buckets, x, v) ==
    \E k \in 1 .. Len(buckets) :
        buckets[k].v = v /\ inInterval(x, buckets[k].interval)

\* The buckets that do not overlap ki, in order.
notOverlapping(buckets, ki) ==
    LET apart(b) == ~overlaps(b.interval, ki) IN SelectSeq(buckets, apart)

\* This step is a call killOverlapping(ki).
killStep(ki) == im'.call = [name |-> "killOverlapping", ki |-> ki]

\* The buckets that do not overlap ki are the same after killOverlapping(ki).
othersKept(ki) == notOverlapping(im'.buckets, ki) = notOverlapping(im.buckets, ki)

\* Every byte outside ki of a bucket that overlaps ki is still mapped to the
\* bucket's value after killOverlapping(ki).
outsideKept(ki) ==
    \A k \in 1 .. Len(im.buckets) : \A x \in 0 .. (MaxByte - 1) :
        (/\ overlaps(im.buckets[k].interval, ki)
         /\ inInterval(x, im.buckets[k].interval) /\ ~inInterval(x, ki))
            => mapsByte(im'.buckets, x, im.buckets[k].v)

\* C23: killOverlapping(ki) removes only the intersection with ki: the bytes
\* outside ki of an overlapping bucket stay mapped to the same value, and
\* the buckets that do not overlap ki are unchanged.
KillRemovesOnlyIntersection ==
    [][\A ki \in Intervals : killStep(ki) => (othersKept(ki) /\ outsideKept(ki))]_vars

\* C23, the part that holds: the buckets that do not overlap ki are
\* unchanged and no bucket is added.
KillKeepsOthers ==
    [][\A ki \in Intervals :
          killStep(ki) => (othersKept(ki) /\ im'.buckets = notOverlapping(im.buckets, ki))]_vars

\* collect has returned for a known interval.
collectedKnown == im.call.name = "collect" /\ ~isUnknown(im.call.interval)

\* The value of bucket k is among the returned values.
returnedValue(k) ==
    \E r \in 1 .. Len(im.call.result) : im.call.result[r] = im.buckets[k].v

\* Byte x is covered by a bucket newer than bucket k or by the covered
\* argument of the call.
coveredByNewer(k, x) ==
    \/ \E j \in (k + 1) .. Len(im.buckets) : inInterval(x, im.buckets[j].interval)
    \/ \E c \in 1 .. Len(im.call.covered) : inInterval(x, im.call.covered[c])

\* The bytes bucket k shares with the queried interval.
sharedBytes(k) ==
    {x \in 0 .. (MaxByte - 1) :
        inInterval(x, im.buckets[k].interval) /\ inInterval(x, im.call.interval)}

\* C24: collect returns no value of an older bucket once the bytes that
\* bucket shares with the query are all covered by newer buckets or by the
\* covered argument.
CollectStopsWhenCovered ==
    collectedKnown =>
        \A k \in 1 .. Len(im.buckets) :
            (~isUnknown(im.buckets[k].interval) /\ returnedValue(k))
                => \E x \in sharedBytes(k) : ~coveredByNewer(k, x)

\* C24, the part that holds: a returned known bucket overlaps the query, and
\* its whole interval is inside no newer bucket and not inside the covered
\* argument.
CollectSkipsContained ==
    collectedKnown =>
        \A k \in 1 .. Len(im.buckets) :
            (~isUnknown(im.buckets[k].interval) /\ returnedValue(k))
                => /\ sharedBytes(k) # {}
                   /\ \A j \in (k + 1) .. Len(im.buckets) :
                          overlaps(im.buckets[j].interval, im.call.interval)
                              => ~isSubsetOf(im.buckets[k].interval,
                                             im.buckets[j].interval)
                   /\ \A c \in 1 .. Len(im.call.covered) :
                          ~isSubsetOf(im.buckets[k].interval, im.call.covered[c])

\* Every byte of the queried interval lies in an interval of the returned
\* key-interval set.
queryCovered ==
    \A x \in 0 .. (MaxByte - 1) :
        inInterval(x, im.call.interval)
            => \E c \in 1 .. Len(im.call.intervals) :
                   inInterval(x, im.call.intervals[c])

\* C25: the third result of collect is true exactly when the queried interval
\* is fully covered by the returned key-interval set.
IsCoveredExact == collectedKnown => (im.call.is_covered <=> queryCovered)

\* C25, the part that holds: the same when at least one bucket is collected,
\* and a third result of true is never wrong.
IsCoveredExactIfCollected ==
    collectedKnown =>
        /\ im.call.is_covered => queryCovered
        /\ im.call.result # <<>> => (im.call.is_covered <=> queryCovered)

\* A query covered only by the union of several adjacent buckets is reported
\* as covered.
adjacentCase ==
    /\ collectedKnown /\ im.call.covered = <<>> /\ Len(im.call.result) > 1
    /\ queryCovered
    /\ \A k \in 1 .. Len(im.buckets) :
           ~isSubsetOf(im.call.interval, im.buckets[k].interval)

IsCoveredAdjacent == adjacentCase => im.call.is_covered

\* ---------------------------------------------------- properties of GVN
\* The PHIs in the registry.
registered == SeqToSet(_phis)

\* The registry only grows and keeps the index of its entries.
registryGrows ==
    Len(_phis') >= Len(_phis) /\ SubSeq(_phis', 1, Len(_phis)) = _phis

\* This step is an iteration of performGvn's loop that returned.
gvnIteration == pc = "gvn" /\ pc' = "gvn" /\ popped' # popped

\* In an iteration of performGvn one queued PHI leaves the worklist, the
\* PHIs appended to the registry enter it, nothing else does, and no PHI in
\* the worklist has been popped before.
worklistStep ==
    /\ \E phi \in phis : /\ phi \notin phis'
                         /\ phis' \ newPhis(St, St') = phis \ {phi}
    /\ newPhis(St, St') \subseteq phis'
    /\ phis' \cap DOMAIN popped' = {}

\* Every PHI of the registry has been popped exactly once, and nothing else
\* has been popped.
allPoppedOnce ==
    /\ DOMAIN popped = registered
    /\ \A phi \in registered : popped[phi] = 1

\* C26: GVN processes each PHI exactly once: the registry only grows and
\* keeps the index of its entries, every PHI appended during a
\* findDefinitions call is inserted into the worklist, no PHI is re-inserted
\* after being popped, and when performGvn has terminated every PHI of the
\* registry has been popped exactly once.
GvnPopsEachPhiOnce ==
    /\ [][registryGrows /\ (gvnIteration => worklistStep)]_vars
    /\ [](pc = "done" => allPoppedOnce)

\* A PHI no node of the frontend demanded: LVN puts each PHI it creates into
\* the defuse of the demanding use, so this one was created by GVN.
createdByGvn(phi) ==
    \A n \in 1 .. Len(nodes) : ~isPhi(St, n) => phi \notin nodes[n].defuse

\* C26, its case: performGvn has terminated, the registry holds PHIs of LVN
\* and PHIs appended during GVN, and each has been popped once.
GvnPopsEachPhiOnceSeen ==
    /\ pc = "done" /\ allPoppedOnce
    /\ \E p, q \in registered : ~createdByGvn(p) /\ createdByGvn(q)

\* The block of node n holds definitions to unknown memory.
holdsUnknown(n) ==
    get(blocks[nodes[n].block].definitions,
        DefSite(UNKNOWN_MEMORY, 0, UNKNOWN)) # {}

gvnStep == pc = "gvn" /\ popped' # popped

\* C29: every PHI created during performGvn is placed in a block that has no
\* or at least two predecessors: findDefinitions never creates a PHI in a
\* block with exactly one predecessor, it asks that predecessor instead.
GvnPhiNotInSinglePredBlock ==
    [][gvnStep => \A p \in newPhis(St, St') :
                      Len(blocks'[nodes'[p].block].preds) # 1]_vars

\* C29, its case: GVN created a PHI in an entry block c and a PHI in a block
\* with two predecessors, and the demand of a PHI reached c through a block b
\* whose only predecessor is c, where no PHI was created during GVN.
GvnPhiNotInSinglePredBlockSeen ==
    /\ pc = "done"
    /\ \E q, r \in registered :
           /\ createdByGvn(q) /\ createdByGvn(r)
           /\ blocks[nodes[q].block].preds = <<>>
           /\ Len(blocks[nodes[r].block].preds) >= 2
           /\ \E b \in 1 .. Len(blocks) :
                  /\ blocks[b].preds = <<nodes[q].block>>
                  /\ \A n \in SeqToSet(blocks[b].nodes) :
                         isPhi(St, n) => ~createdByGvn(n)
                  /\ \E p \in registered :
                         /\ b \in SeqToSet(blocks[nodes[p].block].preds)
                         /\ q \in nodes[p].defuse

\* The defuse set of every node that is not a PHI is the same after the step.
nonPhiDefuseKept ==
    \A n \in 1 .. Len(nodes) : ~isPhi(St, n) => nodes'[n].defuse = nodes[n].defuse

\* This step belongs to performGvn: its start, an iteration, its end.
gvnRuns == pc \in {"lvn_done", "gvn"} /\ pc' \in {"gvn", "done", "diverged"}

\* C30: performGvn changes the defuse sets of PHI nodes only, and between
\* performLvn and performGvn the defuse set of every PHI is empty.
GvnChangesPhiDefuseOnly ==
    /\ [][gvnRuns => nonPhiDefuseKept]_vars
    /\ [](pc = "lvn_done" => \A p \in registered : nodes[p].defuse = {})

\* C30, its case: performGvn has ended, it filled the defuse set of a PHI,
\* and that PHI is in the defuse set of a node of the frontend.
GvnChangesPhiDefuseOnlySeen ==
    /\ pc = "done"
    /\ \E p \in registered : \E n \in 1 .. Len(nodes) :
           /\ ~isPhi(St, n) /\ p \in nodes[n].defuse
           /\ \E d \in nodes[p].defuse : ~isPhi(St, d)
           /\ \E d \in nodes[p].defuse : isPhi(St, d)

\* findDefinitions(P, ds) evaluated again for the PHI phi and the predecessor
\* P of its block returns, creates no PHI and finds only nodes that are in
\* the defuse set of phi.  r is the result of that call.
nothingNew(phi, r) ==
    /\ ~r.diverged
    /\ r.S._phis = _phis
    /\ r.defs \subseteq nodes[phi].defuse

resolved(phi) ==
    \A i \in 1 .. Len(blocks[nodes[phi].block].preds) :
        nothingNew(phi, findDefinitions(St, blocks[nodes[phi].block].preds[i],
                                        nodes[phi].overwrites[1], 1))

\* C27: after performGvn has terminated, for every PHI and every predecessor
\* P of its block, findDefinitions(P, ds) evaluated again creates no PHI and
\* returns only nodes already in the defuse set of the PHI.
GvnFixpoint == pc = "done" => \A phi \in registered : resolved(phi)

\* No PHI of the registry overwrites unknown memory.
noUnknownPhi ==
    \A phi \in registered : nodes[phi].overwrites[1].target # UNKNOWN_MEMORY

\* C27, the part that holds: the same in the runs in which no PHI was created
\* for unknown memory.
GvnFixpointKnown ==
    (pc = "done" /\ noUnknownPhi) => \A phi \in registered : resolved(phi)

\* ------------------------------------------------- properties of the query
\* The PHIs that are in the set start or reachable from it over defuse edges
\* that lead from a PHI to a PHI.
RECURSIVE phisReachable(_)
phisReachable(found) ==
    LET more == {m \in UNION {nodes[p].defuse : p \in found} : isPhi(St, m)}
    IN  IF more \subseteq found THEN found ELSE phisReachable(found \cup more)

\* The nodes that are not PHIs and are in start or in the defuse set of a
\* PHI reachable from start.
nonPhisReachable(start) ==
    LET through == phisReachable({p \in start : isPhi(St, p)})
    IN  {n \in start \cup UNION {nodes[p].defuse : p \in through} :
            ~isPhi(St, n)}

\* g, a result of gatherNonPhisDefs on start, is that set.
gathersExactly(start, g) ==
    ~g.diverged /\ SeqToSet(g.ret) = nonPhisReachable(start)

\* The last query was answered by flattening the defuse set of the node.
flattenedQuery == query.use # 0 /\ ~usesUnknown(St, query.use)

\* C31: gatherNonPhisDefs returns exactly the nodes that are not PHIs and
\* are in its argument or reachable from a PHI of it through PHIs only, in
\* either iteration order of the sets.
GatherNonPhisExact ==
    /\ flattenedQuery =>
           /\ ~query.diverged
           /\ SeqToSet(query.ret) = nonPhisReachable(nodes[query.use].defuse)
    /\ pc = "done" =>
           \A n \in 1 .. Len(nodes) :
               /\ gathersExactly(nodes[n].defuse,
                                 gatherNonPhisDefs(St, nodes[n].defuse))
               /\ gathersExactly(nodes[n].defuse,
                                 gatherNonPhisDefsBackwards(St, nodes[n].defuse))

\* C31, its case: a query was answered through a cycle of PHIs, and a node
\* returned has definitions of its own, reached through its defuse set, that
\* are not returned.
GatherNonPhisExactSeen ==
    /\ flattenedQuery
    /\ \E p \in phisReachable(nodes[query.use].defuse) :
           \E q \in phisReachable({p}) : p \in nodes[q].defuse
    /\ \E n \in SeqToSet(query.ret) :
           nonPhisReachable(nodes[n].defuse) \ SeqToSet(query.ret) # {}

\* The last query was answered by the fallback walk.
fallbackQuery == query.use # 0 /\ usesUnknown(St, query.use)

\* C32: in the fallback walk, whenever an uncovered sub-range is copied into
\* the map for a target the map already defines, every node of its value set
\* is already in foundDefs.
CopiedAlreadyFound ==
    fallbackQuery => findAllReachingDefinitions(St, query.use).unfound = {}

\* C32, the writers lost: every node copied for an already defined target
\* without being in foundDefs is returned all the same.
CopiedNotLost ==
    fallbackQuery =>
        \A n \in findAllReachingDefinitions(St, query.use).unfound :
            nonPhisReachable({n}) \subseteq SeqToSet(query.ret)

\* The blocks reachable backwards from the blocks of the set found, over one
\* or more predecessor edges from its start.
RECURSIVE backwards(_)
backwards(found) ==
    LET more == UNION {SeqToSet(blocks[b].preds) : b \in found} \ {NULLBLOCK}
    IN  IF more \subseteq found THEN found ELSE backwards(found \cup more)

reachableBackwards(b) ==
    IF SeqToSet(blocks[b].preds) \ {NULLBLOCK} = {} THEN {}
    ELSE backwards(SeqToSet(blocks[b].preds) \ {NULLBLOCK})

\* The blocks merged by a walk, a sequence, are pairwise different.
mergedOnce(merged) ==
    \A i, j \in 1 .. Len(merged) : merged[i] = merged[j] => i = j

\* What C33 says of the walk of a query for the node use that merged the
\* blocks of the sequence merged.
walkedOnce(use, merged) ==
    /\ mergedOnce(merged)
    /\ SeqToSet(merged) = reachableBackwards(nodes[use].block)
    /\ nodes[use].block \in SeqToSet(merged)
           <=> nodes[use].block \in reachableBackwards(nodes[use].block)

\* C33: in the predecessor walk of one findAllReachingDefinitions query every
\* block's definitions are merged at most once (every block reachable
\* backwards is merged), and the block of the query itself is merged if and
\* only if it is reachable backwards from itself.
FallbackMergesOnce ==
    fallbackQuery =>
        walkedOnce(query.use, findAllReachingDefinitions(St, query.use).merged)

\* A fallback query in a join block whose walk comes to one block over two
\* paths.
fallbackThroughDiamond ==
    /\ fallbackQuery
    /\ \E b, c \in reachableBackwards(nodes[query.use].block) :
           /\ b # c
           /\ (SeqToSet(blocks[b].preds) \cap SeqToSet(blocks[c].preds))
                  \ {NULLBLOCK} # {}

\* C33, its case: a fallback query in a loop header; the walk enters the
\* header again over the back edge and merges it, after the latch and
\* beside the entry block.
FallbackMergesOnceSeen ==
    /\ fallbackQuery
    /\ nodes[query.use].block \in reachableBackwards(nodes[query.use].block)
    /\ Len(blocks[nodes[query.use].block].preds) >= 2
    /\ Cardinality(reachableBackwards(nodes[query.use].block)) >= 3

\* A sequence in the opposite order.
reversed(s) == [i \in 1 .. Len(s) |-> s[Len(s) + 1 - i]]

\* The analysis state with the predecessors of every block iterated in the
\* opposite order.
predsReversed(S) ==
    [S EXCEPT !.blocks = [b \in 1 .. Len(S.blocks) |->
                             [S.blocks[b] EXCEPT !.preds = reversed(@)]]]

\* C34: the result of findAllReachingDefinitions(from) does not depend on the
\* order in which the predecessors of a block are iterated.
FallbackPredOrderIndependent ==
    fallbackQuery =>
        SeqToSet(query.ret) =
            SeqToSet(findAllReachingDefinitions(predsReversed(St), query.use).ret)

\* C34, the part that holds: the blocks merged by the walk are the same in
\* either order.
FallbackPredOrderSameBlocks ==
    fallbackQuery =>
        SeqToSet(findAllReachingDefinitions(St, query.use).merged) =
            SeqToSet(findAllReachingDefinitions(predsReversed(St), query.use).merged)

\* Only strong overwrites are involved: no node of the frontend has a weak
\* definition, and the queried node only reads known ranges.
strongOnlyQuery ==
    /\ query.use # 0 /\ knownUse(St, query.use)
    /\ \A n \in frontendNodes(St) : nodes[n].defs = <<>>

\* C35: byte precision across blocks: with only strong overwrites involved,
\* every writer returned for a use of a known range writes a byte of the
\* range that is not strongly overwritten on some path from the writer to
\* the use.
BytePreciseAcrossBlocks ==
    strongOnlyQuery =>
        \A w \in queryRet : \E t \in Targets : \E b \in Bytes :
            mayReach(St, w, query.use, t, b)

\* ------------------------------------------ DisjointIntervalSet, properties
\* Only known, non-empty intervals were inserted.
knownInserted ==
    \A k \in 1 .. Len(dis.inserted) : ~isUnknown(dis.inserted[k])

\* The bytes of the intervals of a sequence.
bytesOf(s) ==
    {x \in 0 .. (MaxEnd - 1) : \E k \in 1 .. Len(s) : inInterval(x, s[k])}

\* Two intervals overlap or touch.
touching(i, j) ==
    \/ intervalsOverlap(i.start, i.len, j.start, j.len)
    \/ i.start + i.len = j.start
    \/ j.start + j.len = i.start

\* C36: after any sequence of inserts of known, non-empty intervals the
\* stored intervals are pairwise non-overlapping and non-adjacent, their
\* union is the union of the inserted intervals, and the same intervals are
\* stored when the inserts are made in the opposite order.
DisjointIntervalSetInvariant ==
    knownInserted =>
        /\ \A k, l \in 1 .. Len(dis.intervals) :
               k # l => ~touching(dis.intervals[k], dis.intervals[l])
        /\ bytesOf(dis.intervals) = bytesOf(dis.inserted)
        /\ SeqToSet(dis.intervals)
               = SeqToSet(DisjointIntervalSet(reversed(dis.inserted)))

\* C36 happens: the last insert joined two stored intervals into one.
DisjointIntervalSetInvariantSeen ==
    /\ knownInserted /\ Len(dis.inserted) = 3
    /\ ~touching(dis.inserted[1], dis.inserted[2])
    /\ touching(dis.inserted[3], dis.inserted[1])
    /\ touching(dis.inserted[3], dis.inserted[2])
    /\ Len(dis.intervals) = 1

\* ------------------------------------------------------ DefUse, properties
\* runOnNode has returned for the node.
ranOn == du.call.node

\* The predecessor blocks of the block of a node.
predBlocks(node) == SeqToSet(du.blocks[du.nodes[node].block].preds)

\* The last call was for the first node of a block with several predecessor
\* blocks, none of them the block itself.
ranOnJoin ==
    /\ ranOn # 0 /\ getPredcessor(du, ranOn) = 0
    /\ Cardinality(predBlocks(ranOn)) > 1
    /\ du.nodes[ranOn].block \notin predBlocks(ranOn)

\* The definitions of ptr arriving from block b: those of the DefMap of its
\* last node and its last node when that is a store to ptr.
arrivingFrom(b, ptr) ==
    LET last == getLastNode(du, b)
    IN  du.defmaps[last][ptr] \cup
            (IF du.nodes[last].store /\ ptr \in du.nodes[last].pointsTo
             THEN {last} ELSE {})

\* C37: after runOnNode on the first node of a block with several
\* predecessor blocks, the DefMap of the node holds for every pointer the
\* definitions arriving from every predecessor block.
JoinKeepsAllPredecessors ==
    ranOnJoin =>
        \A b \in predBlocks(ranOn) : \A ptr \in Pointers :
            arrivingFrom(b, ptr) \subseteq du.defmaps[ranOn][ptr]

\* C37, the part that holds: the definitions arriving from the predecessor
\* block that comes last are all there.
JoinKeepsLastPredecessor ==
    ranOnJoin =>
        LET preds == du.blocks[du.nodes[ranOn].block].preds
        IN  \A ptr \in Pointers :
                arrivingFrom(preds[Len(preds)], ptr)
                    \subseteq du.defmaps[ranOn][ptr]

\* The last call changed the DefMap of its node.
changedDefMap == du.defmaps[ranOn] # du.call.before

\* C38: runOnNode returns true exactly when the call changed the DefMap of
\* the node.
ReturnsWhetherChanged ==
    ranOn # 0 => (du.call.ret <=> changedDefMap)

\* C38, the part that holds: the case of a predecessor in the same block.
ReturnsWhetherChangedInBlock ==
    (ranOn # 0 /\ getPredcessor(du, ranOn) # 0)
        => (du.call.ret <=> changedDefMap)

\* C38, the case of a predecessor in the same block happens with a call that
\* changed nothing after one that did.
ReturnsWhetherChangedInBlockSeen ==
    /\ ranOn # 0 /\ getPredcessor(du, ranOn) # 0
    /\ du.call.again /\ ~du.call.ret
    /\ du.defmaps[ranOn] # EmptyDefMap

\* C39: once runOnNode is repeated on one node only, it eventually returns
\* false.
RepeatStabilizes ==
    (pc = "repeat") ~> (pc = "repeat" /\ ~du.call.ret)

\* C39, as a safety property: a repeated call that leaves the DefMap of the
\* node as it was returns false.
RepeatedUnchangedReturnsFalse ==
    (ranOn # 0 /\ du.call.again /\ ~changedDefMap) => ~du.call.ret

====
